---- MODULE Spec2Model ----
(***************************************************************************)
(* A model of a-memory-library: the region allocator (aml_pool) and the    *)
(* growable NUL-terminated buffer (aml_buffer).                            *)
(*                                                                         *)
(* Addresses and sizes are integers of SizeMod's width: the arithmetic of  *)
(* the C code is carried out modulo SizeMod where the code computes in     *)
(* size_t or on pointers, so that an underflow shows as it does in C.      *)
(* A pool is a record of the fields of struct aml_pool_s; its block chain  *)
(* (current, current->prev, ...) is the sequence chain, oldest first, so   *)
(* h->current is the last element.                                         *)
(***************************************************************************)
EXTENDS Integers, Sequences, FiniteSets, TLC

VARIABLES
  pool,     \* [PoolIds -> pool record]: 1 is the standalone pool, 2 a sub-pool
  heap,     \* the system allocator: break, live blocks, released blocks, callers
  marker,   \* the one aml_pool_marker_t of the client
  created,  \* per pool: what the client saw right after creation
  lalloc,   \* per pool: the last span handed out since creation/clear/restore
  last,     \* the last operation and what it returned
  nops,     \* number of operations performed so far
  buf,      \* the buffer handle (struct aml_buffer_s) and its storage
  blast,    \* the last buffer operation
  detached, \* what detach handed out, and the reference buffer followed since
  helper    \* the last call of a string helper: its input and what it returned

vars == <<pool, heap, marker, created, lalloc, last, nops, buf, blast,
         detached, helper>>
poolVars == <<pool, heap, marker, created, lalloc, last>>
bufVars == <<buf, blast, detached>>

-----------------------------------------------------------------------------
(* Bounds of the model. *)

MaxOps == 3          \* operations per behaviour of the region specification
MaxBlocks == 3       \* blocks in one pool's chain
MaxBufOps == 2       \* operations per behaviour of the buffer specification

(* Inputs. *)
\* initial_size for aml_pool_init; the last is SIZE_MAX
InitSizes == {0, 20, 64, 100, 4096, 16777215}
SubSizes == {0, 20, 100}           \* initial_size for aml_pool_pool_init
AllocLens == {8, 40, 120}          \* len for aml_pool_alloc
UallocLens == {0, 3}               \* len for aml_pool_ualloc
MinMaxArgs == {<<10, 50>>, <<40, 200>>}  \* (min, max) for aml_pool_min_max_alloc
AallocArgs == {<<16, 8>>, <<64, 100>>}  \* (alignment, size) for aml_pool_aalloc
FormatLens == {5, 130}             \* formatted length n for aml_pool_strdupvf
GrowthSizes == {0, 16}             \* size for aml_pool_set_minimum_growth_size

PoolIds == {1, 2}

-----------------------------------------------------------------------------
(* The C types. *)

SizeMod == 16777216       \* size_t and pointers wrap modulo this
SizeofSizeT == 8          \* sizeof(size_t)
SizeofPoolT == 48         \* sizeof(aml_pool_t): six words
SizeofNodeT == 16         \* sizeof(aml_pool_node_t): two words
PageBit == 4096

W(x) == x % SizeMod

Max(a, b) == IF a > b THEN a ELSE b
Min(a, b) == IF a < b THEN a ELSE b

\* (x + a - 1) & ~(a - 1), a a power of two
AlignUp(x, a) == ((x + a - 1) \div a) * a

\* x & ~(sizeof(size_t)-1) style padding of aml_pool_init:
\* n + ((8 - (n & 7)) & 7)
RoundWord(n) == n + ((SizeofSizeT - (n % SizeofSizeT)) % SizeofSizeT)

\* (x & 4096) == 0
PageBitClear(x) == (x \div PageBit) % 2 = 0

-----------------------------------------------------------------------------
(* The system allocator behind aml_malloc / aml_free (release build:       *)
(* malloc and free).  Blocks are handed out at increasing addresses and    *)
(* never reused; by is the pool (or 0, the buffer) whose code made the     *)
(* call.                                                                   *)

HeapBase == 16
MallocAlign == 16

\* limit is the address the break may not pass: malloc returns NULL (0)
\* for a request that would.  failed: a malloc has returned NULL; nullref:
\* the code has read, written through or stored that NULL.
InitHeap == [brk |-> HeapBase, live |-> {}, freed |-> {}, mallocs |-> {},
             frees |-> {}, bad |-> FALSE, overrun |-> FALSE,
             aborted |-> FALSE, limit |-> SizeMod, failed |-> FALSE,
             nullref |-> FALSE]

\* abort(): the process ends
abort(w) == [w EXCEPT !.heap.aborted = TRUE]

aml_malloc(w, by, n) ==
  LET a == w.heap.brk
      brk == a + AlignUp(Max(n, 1), MallocAlign) + MallocAlign
  IN  IF brk > w.heap.limit
        THEN [w |-> [w EXCEPT !.heap.mallocs = @ \cup {by},
                              !.heap.failed = TRUE],
              r |-> 0]
        ELSE [w |-> [w EXCEPT !.heap.brk = brk,
                              !.heap.live = @ \cup {[a |-> a, n |-> n]},
                              !.heap.mallocs = @ \cup {by}],
              r |-> a]

\* the code uses the NULL it was given
nullref(w) == [w EXCEPT !.heap.nullref = TRUE]

\* the process has ended, or gone on after undefined behaviour
Dead(w) == w.heap.aborted \/ w.heap.nullref \/ w.heap.overrun

aml_free(w, by, a) ==
  [w EXCEPT !.heap.live = {b \in @ : b.a # a},
            !.heap.freed = @ \cup {a},
            !.heap.frees = @ \cup {by},
            !.heap.bad = @ \/ (\A b \in w.heap.live : b.a # a)]

-----------------------------------------------------------------------------
(* struct aml_pool_s *)

NoPool == [live |-> FALSE, hdr |-> 0, chain |-> <<>>, curp |-> 0,
           minimum_growth_size |-> 0, size |-> 0, used |-> 0, pool |-> 0]

Cur(h) == h.chain[Len(h.chain)]              \* h->current
BlockStart(b) == b.node + SizeofNodeT        \* (char *)(node + 1)

aml_pool_size(h) == W(h.size + W(Cur(h).endp - h.curp))

aml_pool_used(h) == h.used

\* variant: the size is stored without the test for 0
aml_pool_set_minimum_growth_size_unchecked(w, p, size) ==
  [w EXCEPT !.pool[p].minimum_growth_size = size]

aml_pool_set_minimum_growth_size(w, p, size) ==
  IF size = 0 THEN abort(w)
  ELSE [w EXCEPT !.pool[p].minimum_growth_size = size]

\* the pool record that _aml_pool_init and aml_pool_pool_init lay out at
\* address a
PoolAt(a, initial_size, block_size, parent) ==
  [live |-> TRUE, hdr |-> a,
   chain |-> << [node |-> a + SizeofPoolT,
                 endp |-> W(a + SizeofPoolT + SizeofNodeT + block_size)] >>,
   curp |-> a + SizeofPoolT + SizeofNodeT,
   minimum_growth_size |-> initial_size,
   size |-> 0,
   used |-> W(initial_size + SizeofPoolT + SizeofNodeT),
   pool |-> parent]

_aml_pool_init_block_size(initial_size) ==
  IF PageBitClear(initial_size)
    THEN W(initial_size - (SizeofPoolT + SizeofNodeT))
    ELSE initial_size

\* The memset and the stores of the header write SizeofPoolT + SizeofNodeT
\* bytes at the address malloc returned: when the block asked of malloc is
\* shorter, they run over its end (heap.overrun), which is undefined
\* behaviour.  The model records the fields as _aml_pool_init stored them and
\* takes no further step from such a state.
_aml_pool_init(w, c) ==
  LET initial_size == W(RoundWord(c))
      block_size == _aml_pool_init_block_size(initial_size)
      n == W(block_size + SizeofPoolT + SizeofNodeT)
      m == aml_malloc(w, 1, n)
      \* the fields before the call of aml_pool_set_minimum_growth_size
      w1 == [m.w EXCEPT !.pool[1] =
                          [PoolAt(m.r, initial_size, block_size, 0)
                             EXCEPT !.minimum_growth_size = 0],
                        !.heap.overrun = n < SizeofPoolT + SizeofNodeT]
  IN  IF c = 0 THEN abort(w)
      \* memset(h, 0, ...) comes before the test of h
      ELSE IF m.r = 0 THEN nullref(m.w)
      ELSE aml_pool_set_minimum_growth_size(w1, 1, initial_size)

\* aml_pool_pool_init(pool, initial_size): the sub-pool is pool 2
aml_pool_pool_init_to(a, c) ==
  PoolAt(a, W(RoundWord(c)), W(RoundWord(c)), 1)

-----------------------------------------------------------------------------
(* Allocation.  Each operator maps the world w = [pool, heap] to           *)
(* [w: the world after the call, r: the address returned, g: the length    *)
(* passed to _aml_pool_alloc_grow, or -1 when the call did not grow].      *)

RECURSIVE aml_pool_alloc(_, _, _)
RECURSIVE _aml_pool_alloc_grow(_, _, _)

\* variant: a growth that sizes the new block to len alone
_aml_pool_alloc_grow_exact(w, p, len) ==
  LET h == w.pool[p]
      block_size == len
      m == IF h.pool = 0
             THEN aml_malloc(w, p, SizeofNodeT + block_size)
             ELSE LET a == aml_pool_alloc(w, h.pool, SizeofNodeT + block_size)
                  IN  [w |-> a.w, r |-> a.r]
      block == m.r
      r == block + SizeofNodeT
  IN  [w |-> [m.w EXCEPT !.pool[p] =
                [h EXCEPT !.size = IF Len(h.chain) > 1
                                     THEN W(@ + W(Cur(h).endp - h.curp))
                                     ELSE @,
                          !.used = W(@ + SizeofNodeT + block_size),
                          !.chain = Append(@, [node |-> block,
                                               endp |-> r + block_size]),
                          !.curp = r + len]],
       r |-> r, g |-> len]

\* variant: a growth that asks the system allocator for the new block
\* whatever the pool
_aml_pool_alloc_grow_malloc(w, p, len) ==
  LET h == w.pool[p]
      block_size == IF len < h.minimum_growth_size
                      THEN h.minimum_growth_size ELSE len
      m == aml_malloc(w, p, SizeofNodeT + block_size)
      block == m.r
      r == block + SizeofNodeT
  IN  [w |-> [m.w EXCEPT !.pool[p] =
                [h EXCEPT !.size = IF Len(h.chain) > 1
                                     THEN W(@ + W(Cur(h).endp - h.curp))
                                     ELSE @,
                          !.used = W(@ + SizeofNodeT + block_size),
                          !.chain = Append(@, [node |-> block,
                                               endp |-> r + block_size]),
                          !.curp = r + len]],
       r |-> r, g |-> len]

_aml_pool_alloc_grow(w, p, len) ==
  LET h == w.pool[p]
      block_size == IF len < h.minimum_growth_size
                      THEN h.minimum_growth_size ELSE len
      m == IF h.pool = 0
             THEN aml_malloc(w, p, SizeofNodeT + block_size)
             ELSE LET a == aml_pool_alloc(w, h.pool, SizeofNodeT + block_size)
                  IN  [w |-> a.w, r |-> a.r]
      block == m.r
      r == block + SizeofNodeT
  IN  IF block = 0 THEN [w |-> abort(m.w), r |-> 0, g |-> len]
      ELSE
      [w |-> [m.w EXCEPT !.pool[p] =
                [h EXCEPT !.size = IF Len(h.chain) > 1
                                     THEN W(@ + W(Cur(h).endp - h.curp))
                                     ELSE @,
                          !.used = W(@ + SizeofNodeT + block_size),
                          !.chain = Append(@, [node |-> block,
                                               endp |-> r + block_size]),
                          !.curp = r + len]],
       r |-> r, g |-> len]

\* word-aligned allocation: align the cursor, bump it if len fits before
\* the end of the current block, grow otherwise
aml_pool_alloc(w, p, len) ==
  LET h == w.pool[p]
      r == AlignUp(h.curp, SizeofSizeT)
  IN  IF r + len > Cur(h).endp
        THEN _aml_pool_alloc_grow(w, p, len)
        ELSE [w |-> [w EXCEPT !.pool[p].curp = r + len], r |-> r, g |-> -1]

\* aml_pool_pool_init(pool 1, c): the header, the first node and the block
\* come from one aml_pool_alloc on the parent; the sub-pool is pool 2
aml_pool_pool_init(w, c) ==
  LET initial_size == W(RoundWord(c))
      a == aml_pool_alloc(w, 1, W(initial_size + SizeofPoolT + SizeofNodeT))
      h == [aml_pool_pool_init_to(a.r, c) EXCEPT !.minimum_growth_size = 0]
  IN  IF c = 0 THEN [w |-> abort(w), r |-> 0, g |-> -1]
      ELSE [w |-> aml_pool_set_minimum_growth_size(
                    [a.w EXCEPT !.pool[2] = h], 2, initial_size),
            r |-> a.r, g |-> a.g]

\* as aml_pool_alloc, without the alignment padding
aml_pool_ualloc(w, p, len) ==
  LET h == w.pool[p]
      r == h.curp
  IN  IF r + len > Cur(h).endp
        THEN _aml_pool_alloc_grow(w, p, len)
        ELSE [w |-> [w EXCEPT !.pool[p].curp = r + len], r |-> r, g |-> -1]

\* variant: the current block serves the request only when it holds max_len
aml_pool_min_max_alloc_greedy(w, p, len, max_len) ==
  LET h == w.pool[p]
      r == h.curp
      avail == Cur(h).endp - r
  IN  IF avail < max_len
        THEN LET b == _aml_pool_alloc_grow(w, p, len)
             IN  [w |-> b.w, r |-> b.r, g |-> b.g, rlen |-> len]
        ELSE [w |-> [w EXCEPT !.pool[p].curp = r + max_len],
              r |-> r, g |-> -1, rlen |-> max_len]

\* as much of what is left of the current block as possible, between len and
\* max_len bytes; a new block of at least len bytes when the current block
\* has less than len left
aml_pool_min_max_alloc(w, p, len, max_len) ==
  LET h == w.pool[p]
      r == h.curp
      avail == Cur(h).endp - r
  IN  IF avail < len
        THEN LET b == _aml_pool_alloc_grow(w, p, len)
             IN  [w |-> b.w, r |-> b.r, g |-> b.g, rlen |-> len]
        ELSE LET rlen == Min(avail, max_len)
             IN  [w |-> [w EXCEPT !.pool[p].curp = r + rlen],
                  r |-> r, g |-> -1, rlen |-> rlen]

\* variant: the growth path answers the start of the new block as it is
aml_pool_aalloc_noalign(w, p, alignment, size) ==
  LET h == w.pool[p]
      current == h.curp
      aligned == AlignUp(current, alignment)
      padding == aligned - current
  IN  IF h.curp + padding + size <= Cur(h).endp
        THEN [w |-> [w EXCEPT !.pool[p].curp = aligned + size,
                              !.pool[p].used = W(@ + padding + size)],
              r |-> aligned, g |-> -1]
        ELSE LET total_size == size + alignment - 1
                 b == _aml_pool_alloc_grow(w, p, total_size)
             IN  [w |-> b.w, r |-> b.r, g |-> b.g]

\* variant: the cursor is bumped by size from where it was, the padding
\* forgotten
aml_pool_aalloc_nopad(w, p, alignment, size) ==
  LET h == w.pool[p]
      current == h.curp
      aligned == AlignUp(current, alignment)
      padding == aligned - current
  IN  IF h.curp + padding + size <= Cur(h).endp
        THEN [w |-> [w EXCEPT !.pool[p].curp = current + size,
                              !.pool[p].used = W(@ + padding + size)],
              r |-> aligned, g |-> -1]
        ELSE LET total_size == size + alignment - 1
                 b == _aml_pool_alloc_grow(w, p, total_size)
             IN  [w |-> b.w, r |-> AlignUp(b.r, alignment), g |-> b.g]

aml_pool_aalloc(w, p, alignment, size) ==
  LET h == w.pool[p]
      current == h.curp
      aligned == AlignUp(current, alignment)
      padding == aligned - current
  IN  IF h.curp + padding + size <= Cur(h).endp
        THEN [w |-> [w EXCEPT !.pool[p].curp = aligned + size,
                              !.pool[p].used = W(@ + padding + size)],
              r |-> aligned, g |-> -1]
        ELSE LET total_size == size + alignment - 1
                 b == _aml_pool_alloc_grow(w, p, total_size)
             IN  [w |-> b.w, r |-> AlignUp(b.r, alignment), g |-> b.g]

\* n is the length vsnprintf reports for the format and its arguments
aml_pool_strdupvf(w, p, n) ==
  LET h == w.pool[p]
      leftover == W(Cur(h).endp - h.curp)
      r == h.curp
  IN  IF n < leftover
        THEN [w |-> [w EXCEPT !.pool[p].curp = r + n + 1], r |-> r, g |-> -1]
        ELSE aml_pool_ualloc(w, p, n + 1)

-----------------------------------------------------------------------------
(* clear, destroy, save, restore *)

\* the loop of aml_pool_clear / aml_pool_restore: release the blocks
\* chain[i], i = from .. to+1 downwards, when the pool is not a sub-pool
\* variant: the loop releases the blocks of a sub-pool too
RECURSIVE ReleaseBlocks_always(_, _, _, _)
ReleaseBlocks_always(w, p, from, to) ==
  IF from <= to THEN w
  ELSE ReleaseBlocks_always(aml_free(w, p, w.pool[p].chain[from].node),
                            p, from - 1, to)

RECURSIVE ReleaseBlocks(_, _, _, _)
ReleaseBlocks(w, p, from, to) ==
  IF from <= to THEN w
  ELSE ReleaseBlocks(IF w.pool[p].pool = 0
                       THEN aml_free(w, p, w.pool[p].chain[from].node)
                       ELSE w,
                     p, from - 1, to)

aml_pool_clear(w, p) ==
  LET h == w.pool[p]
      w1 == ReleaseBlocks(w, p, Len(h.chain), 1)
      first == h.chain[1]
      curp == BlockStart(first)
  IN  [w1 EXCEPT !.pool[p] =
         [h EXCEPT !.chain = <<first>>,
                   !.curp = curp,
                   !.size = 0,
                   !.used = W(W(first.endp - curp) + SizeofPoolT + SizeofNodeT)]]

\* variant: the header block is released without the clear before it
aml_pool_destroy_noclear(w, p) ==
  LET w2 == IF w.pool[p].pool = 0 THEN aml_free(w, p, w.pool[p].hdr) ELSE w
  IN  [w2 EXCEPT !.pool[p] = NoPool]


aml_pool_destroy(w, p) ==
  LET w1 == aml_pool_clear(w, p)
      w2 == IF w1.pool[p].pool = 0 THEN aml_free(w1, p, w1.pool[p].hdr) ELSE w1
  IN  [w2 EXCEPT !.pool[p] = NoPool]

NoMarker == [set |-> FALSE, p |-> 0, depth |-> 0, curp |-> 0, size |-> 0,
             used |-> 0, seen_used |-> 0, seen_size |-> 0, allocs |-> 0]

\* snapshot of current block, cursor and counters; seen_used/seen_size are
\* what used() and size() returned at the save, allocs counts the
\* allocations made since
aml_pool_save(h, p) ==
  [set |-> TRUE, p |-> p, depth |-> Len(h.chain), curp |-> h.curp,
   size |-> h.size, used |-> h.used,
   seen_used |-> aml_pool_used(h), seen_size |-> aml_pool_size(h),
   allocs |-> 0]

\* variant: a restore that leaves the footprint counter as it is
aml_pool_restore_keep_used(w, p, cp) ==
  LET h == w.pool[p]
      w1 == ReleaseBlocks(w, p, Len(h.chain), cp.depth)
  IN  [w1 EXCEPT !.pool[p] =
         [h EXCEPT !.chain = SubSeq(@, 1, cp.depth),
                   !.curp = cp.curp,
                   !.size = cp.size]]

aml_pool_restore(w, p, cp) ==
  LET h == w.pool[p]
      w1 == ReleaseBlocks(w, p, Len(h.chain), cp.depth)
  IN  [w1 EXCEPT !.pool[p] =
         [h EXCEPT !.chain = SubSeq(@, 1, cp.depth),
                   !.curp = cp.curp,
                   !.size = cp.size,
                   !.used = cp.used]]

\* Whether address a lies in memory pool h has handed out and not reclaimed
HandedOut(h, a) ==
  \E i \in 1..Len(h.chain) :
    /\ BlockStart(h.chain[i]) <= a
    /\ a < (IF i = Len(h.chain) THEN h.curp ELSE h.chain[i].endp)

\* Usage discipline: a sub-pool whose memory its parent has reclaimed
\* (clear, destroy, restore past it) is no longer used by the client.
Reclaimed(w) ==
  /\ w.pool[2].live
  /\ \/ ~w.pool[1].live
     \/ ~HandedOut(w.pool[1], w.pool[2].hdr)
     \/ \E i \in 1..Len(w.pool[2].chain) :
          ~HandedOut(w.pool[1], w.pool[2].chain[i].node)

Discipline(w) == IF Reclaimed(w) THEN [w EXCEPT !.pool[2] = NoPool] ELSE w

-----------------------------------------------------------------------------
(* The region specification: a client of one standalone pool and at most   *)
(* one sub-pool of it.                                                     *)

World == [pool |-> pool, heap |-> heap]

\* the client may make another call
CanStep ==
  nops < MaxOps /\ ~heap.overrun /\ ~heap.aborted /\ ~heap.nullref

NoSpan == [valid |-> FALSE, seq |-> 0, r |-> 0, len |-> 0, blk |-> 0,
           same |-> FALSE]
NoCreated == [c |-> 0, used |-> 0, size |-> 0, tuned |-> FALSE]

NoBuf == [live |-> FALSE, pool |-> 0, hnd |-> 0, ptr |-> 0, data |-> <<>>,
          length |-> 0, size |-> 0]
NoBufOp == [op |-> "none", grew |-> FALSE, kept |-> 0, content |-> <<>>,
            n |-> 0]
\* no string helper called yet
NoHelper == [op |-> "none"]

\* nothing detached yet, no reference buffer
NoDetached == [on |-> FALSE,
               w |-> [pool |-> [q \in PoolIds |-> NoPool], heap |-> InitHeap,
                      buf |-> NoBuf],
               given |-> {}, ret |-> 0, len |-> 0]

\* a span handed out by pool q: remembered until its next clear/restore
Span(old, r, len, h) ==
  [valid |-> TRUE, seq |-> old.seq + 1, r |-> r, len |-> len,
   blk |-> Cur(h).node, same |-> old.valid /\ old.blk = Cur(h).node]

\* The bookkeeping every allocation step shares.  res is the result of the
\* allocation operator, len the length of the span the caller asked for.
Allocated(op, p, res, len, alignment, range) ==
  /\ CanStep
  /\ \A q \in PoolIds : Len(res.w.pool[q].chain) <= MaxBlocks
  /\ pool' = res.w.pool
  /\ heap' = res.w.heap
  /\ last' = [op |-> op, p |-> p, r |-> res.r, g |-> res.g, dropped |-> 0,
              arg |-> len, align |-> alignment, range |-> range]
  /\ lalloc' = [q \in PoolIds |->
       IF q = p THEN Span(lalloc[q], res.r, len, res.w.pool[q])
       ELSE IF res.w.pool[q] # pool[q]
         \* the parent served the growth of its sub-pool
         THEN Span(lalloc[q], Cur(res.w.pool[p]).node,
                   Cur(res.w.pool[p]).endp - Cur(res.w.pool[p]).node,
                   res.w.pool[q])
         ELSE lalloc[q]]
  /\ marker' = IF marker.set /\ (marker.p = p \/ res.w.pool[marker.p] # pool[marker.p])
                 THEN [marker EXCEPT !.allocs = @ + 1] ELSE marker
  /\ nops' = nops + 1
  /\ UNCHANGED <<created, buf, blast, detached, helper>>

PoolAlloc(p, len) ==
  /\ pool[p].live
  /\ Allocated("alloc", p, aml_pool_alloc(World, p, len), len, SizeofSizeT, <<0, 0>>)

PoolUalloc(p, len) ==
  /\ pool[p].live
  /\ Allocated("ualloc", p, aml_pool_ualloc(World, p, len), len, 1, <<0, 0>>)

PoolAalloc(p, alignment, size) ==
  /\ pool[p].live
  /\ Allocated("aalloc", p, aml_pool_aalloc(World, p, alignment, size), size,
               alignment, <<0, 0>>)

PoolMinMaxAlloc(p, len, max_len) ==
  /\ pool[p].live
  /\ LET res == aml_pool_min_max_alloc(World, p, len, max_len)
     IN  Allocated("min_max_alloc", p, res, res.rlen, 1, <<len, max_len>>)

PoolStrdupvf(p, n) ==
  /\ pool[p].live
  /\ Allocated("strdupvf", p, aml_pool_strdupvf(World, p, n), n + 1, 1, <<0, 0>>)

\* The bookkeeping of a step that reclaims memory of pool p.
\* dropped is the number of blocks the call took off the chain.
Reclaim(op, p, w1, dropped) ==
  LET w2 == Discipline(w1)
      gone == {q \in PoolIds : pool[q].live /\ ~w2.pool[q].live}
  IN  /\ CanStep
      /\ pool' = w2.pool
      /\ heap' = w2.heap
      /\ last' = [op |-> op, p |-> p, r |-> 0, g |-> -1,
                   dropped |-> dropped, arg |-> 0, align |-> 0, range |-> <<0, 0>>]
      /\ lalloc' = [q \in PoolIds |->
                      IF q = p \/ q \in gone THEN NoSpan ELSE lalloc[q]]
      /\ created' = [q \in PoolIds |->
                      IF q \in gone THEN NoCreated ELSE created[q]]
      /\ marker' = IF op = "restore" THEN [marker EXCEPT !.set = FALSE]
                   ELSE IF marker.set /\ (marker.p = p \/ marker.p \in gone)
                     THEN NoMarker ELSE marker
      /\ nops' = nops + 1
      /\ UNCHANGED <<buf, blast, detached, helper>>

PoolClear(p) ==
  /\ pool[p].live
  /\ Reclaim("clear", p, aml_pool_clear(World, p), Len(pool[p].chain) - 1)

PoolDestroy(p) ==
  /\ pool[p].live
  /\ Reclaim("destroy", p, aml_pool_destroy(World, p), Len(pool[p].chain) - 1)

PoolSave(p) ==
  /\ pool[p].live
  /\ ~marker.set
  /\ CanStep
  /\ marker' = aml_pool_save(pool[p], p)
  /\ last' = [op |-> "save", p |-> p, r |-> 0, g |-> -1, dropped |-> 0,
              arg |-> 0, align |-> 0, range |-> <<0, 0>>]
  /\ nops' = nops + 1
  /\ UNCHANGED <<pool, heap, created, lalloc, buf, blast, detached, helper>>

PoolRestore ==
  /\ marker.set
  /\ pool[marker.p].live
  /\ Reclaim("restore", marker.p, aml_pool_restore(World, marker.p, marker),
             Len(pool[marker.p].chain) - marker.depth)

PoolSetMinimumGrowthSize(p, size) ==
  LET w1 == aml_pool_set_minimum_growth_size(World, p, size) IN
  /\ pool[p].live
  /\ CanStep
  /\ pool' = w1.pool
  /\ heap' = w1.heap
  /\ created' = IF w1.heap.aborted THEN created
                ELSE [created EXCEPT ![p].tuned = TRUE]
  /\ last' = [op |-> "set_minimum_growth_size", p |-> p, r |-> 0, g |-> -1,
              dropped |-> 0, arg |-> size, align |-> 0, range |-> <<0, 0>>]
  /\ nops' = nops + 1
  /\ UNCHANGED <<marker, lalloc, buf, blast, detached, helper>>

PoolPoolInit(c) ==
  LET a == aml_pool_pool_init(World, c)
      h == a.w.pool[2]
      ok == ~a.w.heap.aborted
  IN  /\ pool[1].live
      /\ ~pool[2].live
      /\ CanStep
      /\ Len(a.w.pool[1].chain) <= MaxBlocks
      /\ pool' = a.w.pool
      /\ heap' = a.w.heap
      /\ created' = IF ok
                      THEN [created EXCEPT ![2] =
                              [c |-> c, used |-> aml_pool_used(h),
                               size |-> aml_pool_size(h), tuned |-> FALSE]]
                      ELSE created
      /\ lalloc' = IF ok
                     THEN [lalloc EXCEPT
                             ![1] = Span(@, a.r,
                                         W(RoundWord(c)) + SizeofPoolT + SizeofNodeT,
                                         a.w.pool[1]),
                             ![2] = NoSpan]
                     ELSE lalloc
      /\ marker' = IF marker.set /\ ok
                     THEN [marker EXCEPT !.allocs = @ + 1] ELSE marker
      /\ last' = [op |-> "pool_init", p |-> 2, r |-> a.r, g |-> a.g,
                  dropped |-> 0, arg |-> c, align |-> 0, range |-> <<0, 0>>]
      /\ nops' = nops + 1
      /\ UNCHANGED <<buf, blast, detached, helper>>

\* aml_pool_init(c)
InitRegion ==
  \E c \in InitSizes :
    LET w == _aml_pool_init([pool |-> [q \in PoolIds |-> NoPool],
                             heap |-> InitHeap], c)
    IN  /\ pool = w.pool
        /\ heap = w.heap
        /\ created = [q \in PoolIds |->
                        IF q = 1 /\ w.pool[1].live
                          THEN [c |-> c, used |-> aml_pool_used(w.pool[1]),
                                size |-> aml_pool_size(w.pool[1]),
                                tuned |-> FALSE]
                          ELSE NoCreated]
        /\ marker = NoMarker
        /\ lalloc = [q \in PoolIds |-> NoSpan]
        /\ last = [op |-> "init", p |-> 1, r |-> w.pool[1].hdr, g |-> -1,
                   dropped |-> 0, arg |-> c, align |-> 0, range |-> <<0, 0>>]
        /\ nops = 0
        /\ buf = NoBuf
        /\ blast = NoBufOp
        /\ detached = NoDetached
        /\ helper = NoHelper

NextRegion ==
  \/ \E p \in PoolIds, len \in AllocLens : PoolAlloc(p, len)
  \/ \E p \in PoolIds, len \in UallocLens : PoolUalloc(p, len)
  \/ \E p \in PoolIds, a \in AallocArgs : PoolAalloc(p, a[1], a[2])
  \/ \E p \in PoolIds, n \in FormatLens : PoolStrdupvf(p, n)
  \/ \E p \in PoolIds, a \in MinMaxArgs : PoolMinMaxAlloc(p, a[1], a[2])
  \/ \E p \in PoolIds : PoolClear(p)
  \/ \E p \in PoolIds : PoolDestroy(p)
  \/ \E p \in PoolIds : PoolSave(p)
  \/ PoolRestore
  \/ \E p \in PoolIds, s \in GrowthSizes : PoolSetMinimumGrowthSize(p, s)
  \/ \E c \in SubSizes : PoolPoolInit(c)

SpecRegion == InitRegion /\ [][NextRegion]_vars

-----------------------------------------------------------------------------
(* Properties of the region. *)

\* the pools of the running process
Live == IF heap.aborted THEN {} ELSE {p \in PoolIds : pool[p].live}

\* C3: the bump cursor of every pool lies within its current block:
\* start of the block <= curp <= endp.
CursorInBlock ==
  \A p \in Live :
    /\ BlockStart(Cur(pool[p])) <= pool[p].curp
    /\ pool[p].curp <= Cur(pool[p]).endp

\* C4: without an intervening clear or restore, a span served from the same
\* block as the span before it starts at or after the end of that span, and
\* used() does not decrease from one call to the next.
BumpMonotoneStep ==
  /\ \A p \in PoolIds :
       (lalloc[p].valid /\ lalloc'[p].valid /\ lalloc'[p].seq = lalloc[p].seq + 1
          /\ lalloc'[p].blk = lalloc[p].blk)
       => lalloc'[p].r >= lalloc[p].r + lalloc[p].len
  /\ \A p \in PoolIds :
       (pool[p].live /\ pool'[p].live
          /\ last'.op \notin {"clear", "restore", "destroy"})
       => aml_pool_used(pool'[p]) >= aml_pool_used(pool[p])
BumpMonotone == [][BumpMonotoneStep]_vars

\* two consecutive spans of one pool came from the same block
BumpMonotoneWitness ==
  \E p \in Live : lalloc[p].same /\ lalloc[p].len > 0

\* C5: restore returns used() to the value it had at the save, and a
\* restore that follows its save with no allocation in between leaves
\* used() and size() as they were.
MarkerRoundTrip ==
  (last.op = "restore" /\ pool[last.p].live) =>
    /\ aml_pool_used(pool[last.p]) = marker.seen_used
    /\ marker.allocs = 0 => aml_pool_size(pool[last.p]) = marker.seen_size

\* a restore that took at least one block off the chain
MarkerRoundTripWitness ==
  last.op = "restore" /\ pool[last.p].live /\ last.dropped > 0

\* C6: after clear() only the first block remains, the cursor is at its
\* start, and used() and size() are what they were right after creation.
ClearRestoresCreation ==
  (last.op = "clear" /\ pool[last.p].live) =>
    LET h == pool[last.p] IN
    /\ Len(h.chain) = 1
    /\ h.curp = BlockStart(h.chain[1])
    /\ aml_pool_used(h) = created[last.p].used
    /\ aml_pool_size(h) = created[last.p].size

\* C7: aml_pool_init(c) asks the system for one block holding the pool
\* header, the first node and c bytes rounded up to the word size, and
\* size() right after it is c rounded up to the word size.
InitCapacity ==
  (last.op = "init" /\ created[1].c > 0) =>
    /\ created[1].size = RoundWord(created[1].c)
    /\ heap.live = {[a |-> pool[1].hdr,
                     n |-> SizeofPoolT + SizeofNodeT + RoundWord(created[1].c)]}

\* C8: a growth asked for len bytes adds exactly one block, of capacity
\* max(len, minimum_growth_size), on top of the chain, which is otherwise
\* as it was; no system block is released; minimum_growth_size is the
\* word-rounded initial size unless the client set it.  The length asked
\* of the growth is last'.g (for aalloc, size + alignment - 1); the pool that
\* grows on pool_init is the parent.
GrowthPolicyStep ==
  /\ \A p \in PoolIds :
       (pool[p].live /\ pool'[p].live /\ Len(pool'[p].chain) > Len(pool[p].chain))
       => /\ pool'[p].chain = Append(pool[p].chain, Cur(pool'[p]))
          /\ heap.live \subseteq heap'.live
          /\ Cur(pool'[p]).endp - BlockStart(Cur(pool'[p]))
               >= pool[p].minimum_growth_size
  /\ LET q == IF last'.op = "pool_init" THEN 1 ELSE last'.p
         h == pool[q]
         h2 == pool'[q]
     IN  /\ last'.g >= 0 =>
               /\ Len(h2.chain) = Len(h.chain) + 1
               /\ Cur(h2).endp - BlockStart(Cur(h2))
                    = Max(last'.g, h.minimum_growth_size)
               /\ ~created[q].tuned =>
                    h.minimum_growth_size = RoundWord(created[q].c)
         /\ (last'.g < 0 /\ h.live /\ h2.live) =>
               Len(h2.chain) <= Len(h.chain)
GrowthPolicy == [][GrowthPolicyStep]_vars

\* an allocation that did not fit and grew the pool by a block longer than
\* minimum_growth_size
GrowthPolicyWitness ==
  /\ last.g >= 0
  /\ pool[last.p].live
  /\ Len(pool[last.p].chain) >= 2
  /\ last.g > pool[last.p].minimum_growth_size

\* C9: the code of a sub-pool never calls the system allocator: its header
\* and every block of its chain lie in memory its parent handed out, and
\* neither malloc nor free is called on its behalf.
SubNeverCallsSystem ==
  /\ 2 \notin heap.mallocs \cup heap.frees
  /\ pool[2].live =>
       /\ pool[1].live
       /\ HandedOut(pool[1], pool[2].hdr)
       /\ \A i \in 1..Len(pool[2].chain) :
            HandedOut(pool[1], pool[2].chain[i].node)

\* the sub-pool has been cleared or destroyed after it had grown
SubNeverCallsSystemWitness ==
  last.op \in {"clear", "destroy"} /\ last.p = 2 /\ last.dropped > 0

\* C10: clear() and destroy() of a sub-pool leave its parent and the system
\* allocator exactly as they were.
SubNonReturnStep ==
  (last'.op \in {"clear", "destroy"} /\ last'.p = 2 /\ nops' = nops + 1) =>
    /\ pool'[1] = pool[1]
    /\ heap' = heap
    /\ lalloc'[1] = lalloc[1]
SubNonReturn == [][SubNonReturnStep]_vars

\* the sub-pool has been cleared after it had grown, its parent live
SubNonReturnWitness ==
  last.op = "clear" /\ last.p = 2 /\ last.dropped > 0 /\ pool[1].live

ZeroSizeOps == {"init", "pool_init", "set_minimum_growth_size"}

ZeroSizesFatalState ==
  /\ ~heap.aborted => \A p \in Live : pool[p].minimum_growth_size > 0
  /\ (last.op \in ZeroSizeOps /\ last.arg = 0) => heap.aborted
  /\ (last.op = "init" /\ last.arg = 0 /\ nops = 0) =>
       /\ pool = [q \in PoolIds |-> NoPool]
       /\ heap = abort([heap |-> InitHeap]).heap

ZeroSizesFatalStep ==
  (nops' = nops + 1 /\ last'.op \in ZeroSizeOps /\ last'.arg = 0) =>
    /\ pool' = pool
    /\ heap' = abort(World).heap

\* C11: init(0), pool_init(parent, 0) and set_minimum_growth_size(0) abort
\* the process and leave every pool and the system allocator as they were;
\* minimum_growth_size > 0 in every pool of a running process.
ZeroSizesFatal == []ZeroSizesFatalState /\ [][ZeroSizesFatalStep]_vars

\* set_minimum_growth_size(0) on a live pool has aborted the process
ZeroSizesFatalWitness ==
  /\ heap.aborted
  /\ last.op = "set_minimum_growth_size"
  /\ last.arg = 0
  /\ pool[last.p].live

\* the blocks of a pool, as address intervals
Blocks(h) == {[lo |-> h.chain[i].node, hi |-> h.chain[i].endp] : i \in 1..Len(h.chain)}

AallocContainedStep ==
  (nops' = nops + 1 /\ last'.op = "aalloc" /\ ~heap'.aborted) =>
    LET p == last'.p
        h == pool'[p]
        r == last'.r
    IN  /\ r % last'.align = 0
        /\ BlockStart(Cur(h)) <= r
        /\ r + last'.arg <= h.curp
        /\ h.curp <= Cur(h).endp
        \* the fits path stays in the block and starts at or after the old
        \* cursor, below which every earlier span of the block lies
        /\ last'.g = -1 => /\ h.chain = pool[p].chain
                           /\ r >= pool[p].curp
        \* the growth path answers from a block that meets no earlier block
        /\ last'.g # -1 => /\ Len(h.chain) = Len(pool[p].chain) + 1
                           /\ \A b \in Blocks(pool[p]) :
                                Cur(h).endp <= b.lo \/ b.hi <= Cur(h).node
                           /\ lalloc[p].valid =>
                                \/ r + last'.arg <= lalloc[p].r
                                \/ lalloc[p].r + lalloc[p].len <= r
\* C13: aml_pool_aalloc with a power-of-two alignment returns, on the path
\* that fits in the current block and on the growth path, an address that is
\* a multiple of the alignment, whose span lies inside the current block at
\* or before the new cursor and overlaps no earlier allocation.
AallocContained == [][AallocContainedStep]_vars

\* the growth path had to move the address past the start of the new block
AallocContainedWitness ==
  /\ last.op = "aalloc" /\ ~heap.aborted
  /\ last.g # -1
  /\ last.r > BlockStart(Cur(pool[last.p]))
  /\ last.r % last.align = 0

MinMaxAllocStep ==
  (nops' = nops + 1 /\ last'.op = "min_max_alloc" /\ ~heap'.aborted) =>
    LET p == last'.p
        h == pool'[p]
        min == last'.range[1]
        max == last'.range[2]
        rlen == last'.arg
        free == Cur(pool[p]).endp - pool[p].curp
    IN  /\ min <= rlen /\ rlen <= max
        /\ BlockStart(Cur(h)) <= last'.r
        /\ last'.r + rlen <= Cur(h).endp
        /\ free >= min => /\ h.chain = pool[p].chain
                          /\ last'.r = pool[p].curp
                          /\ heap' = heap
        /\ free < min => /\ Len(h.chain) = Len(pool[p].chain) + 1
                         /\ Cur(h).endp - BlockStart(Cur(h)) >= min
\* C14: aml_pool_min_max_alloc(min, max) with min <= max returns a span whose
\* reported length is between min and max; the current block serves it and
\* no block is added whenever the current block has at least min bytes free,
\* and otherwise a new block of at least min bytes is added.
MinMaxAlloc == [][MinMaxAllocStep]_vars

\* the current block had at least min but less than max bytes left
MinMaxAllocWitness ==
  /\ last.op = "min_max_alloc" /\ ~heap.aborted
  /\ last.g = -1
  /\ last.range[1] <= last.arg /\ last.arg < last.range[2]
  /\ pool[last.p].curp = Cur(pool[last.p]).endp

\* C15: aml_pool_size() is the number of bytes available without a new
\* block: in every reachable state an unaligned allocation of any length up
\* to size(), issued next, is served from the current block and adds no block.
\* (Stated for pools whose first block was sized without wrap-around.)
SizeIsAvailable ==
  ~heap.overrun =>
    \A p \in Live :
      \A len \in {l \in UallocLens \cup AllocLens \cup {aml_pool_size(pool[p])} :
                    l <= aml_pool_size(pool[p])} :
        LET res == aml_pool_ualloc(World, p, len)
        IN  /\ res.g = -1
            /\ res.w.pool[p].chain = pool[p].chain





-----------------------------------------------------------------------------
\* struct aml_buffer_s.  buf.hnd is the address of the handle, buf.ptr is
\* h->data, buf.data the bytes of the storage h->data points to when that
\* is a block of its own (data[i + 1] is the C h->data[i]).  When h->data
\* is the placeholder, the address of h->size, h->data[0] is the low byte of
\* h->size.

SizeofBufferT == 32       \* sizeof(aml_buffer_t): four words
OffsetofSize == 16        \* offsetof(aml_buffer_t, size)
ByteMod == 256

(* Inputs. *)
BufSizes == {0, 2}                 \* initial_size of a buffer
BufPoolSizes == {100}               \* initial_size of the pool behind a buffer
Strs == {<<>>, <<7, 8, 9>>}        \* C strings
Blobs == {<<7>>, <<0, 8>>}         \* byte arrays
Chars == {7}
RepeatCounts == {-1, 0, 2}         \* n of setn / appendn
ReserveLens == {0, 3, 60}             \* length of append_alloc / append_ualloc
ResizeLens == {0, 1, 60}           \* length of resize / alloc
ShrinkLens == {1, 5}
ResetSizes == {0, 1}
Texts == {<<>>, <<7, 7, 7, 7>>}    \* what a format and its arguments print
JunkBytes == {0, 85}               \* what fresh storage may hold

\* n bytes of storage nobody has written yet
Fresh(n, j) == [k \in 1..n |-> j]

\* memcpy(dst + at, src, n)
memcpy(dst, at, src, n) ==
  [k \in 1..Len(dst) |-> IF k > at /\ k <= at + n THEN src[k - at] ELSE dst[k]]

\* memset(dst + at, ch, n)
memset(dst, at, ch, n) ==
  [k \in 1..Len(dst) |-> IF k > at /\ k <= at + n THEN ch ELSE dst[k]]

\* pd >= pb && pd < pe: h->data points inside the handle
IsSentinel(h) == h.ptr >= h.hnd /\ h.ptr < h.hnd + SizeofBufferT

\* the bytes at h->data
Bytes(h) == IF IsSentinel(h) THEN <<h.size % ByteMod>> ELSE h.data

\* h->data[i]
At(h, i) == Bytes(h)[i + 1]

\* h->data[i] = v
Store(h, i, v) ==
  IF IsSentinel(h)
    THEN [h EXCEPT !.size = (@ \div ByteMod) * ByteMod + v]
    ELSE [h EXCEPT !.data[i + 1] = v]

\* memcpy(h->data + at, src, n)
StoreBytes(h, at, src, n) ==
  IF n = 0 THEN h ELSE [h EXCEPT !.data = memcpy(@, at, src, n)]

\* aml_buffer_init(initial_size): the handle, and either the placeholder or
\* initial_size + 1 bytes holding the empty string
aml_buffer_init(w, initial_size, j) ==
  LET m == aml_malloc(w, 0, SizeofBufferT)
      d == IF initial_size = 0
             THEN [w |-> m.w, r |-> m.r + OffsetofSize]
             ELSE aml_malloc(m.w, 0, initial_size + 1)
  IN  IF m.r = 0 \/ d.r = 0 THEN abort(d.w)
      ELSE
      [d.w EXCEPT !.buf =
         [live |-> TRUE, pool |-> 0, hnd |-> m.r, ptr |-> d.r,
          data |-> IF initial_size = 0 THEN <<>>
                   ELSE [Fresh(initial_size + 1, j) EXCEPT ![1] = 0],
          length |-> 0, size |-> initial_size]]

aml_buffer_pool_init(w, p, initial_size, j) ==
  LET a == aml_pool_alloc(w, p, SizeofBufferT)
      d == aml_pool_alloc(a.w, p, initial_size + 1)
  IN  [d.w EXCEPT !.buf =
         [live |-> TRUE, pool |-> p, hnd |-> a.r, ptr |-> d.r,
          data |-> [Fresh(initial_size + 1, j) EXCEPT ![1] = 0],
          length |-> 0, size |-> initial_size]]

\* variant: storage and handle are released whatever the backing
aml_buffer_destroy_always(w) ==
  LET h == w.buf
      w1 == aml_free(IF IsSentinel(h) THEN w ELSE aml_free(w, 0, h.ptr),
                     0, h.hnd)
  IN  [w1 EXCEPT !.buf = NoBuf]

\* variant: h->data is released without the test for the placeholder
aml_buffer_destroy_nosentinel(w) ==
  LET h == w.buf
      w1 == IF h.pool # 0 THEN w
            ELSE aml_free(aml_free(w, 0, h.ptr), 0, h.hnd)
  IN  IF h.pool # 0 THEN w ELSE [w1 EXCEPT !.buf = NoBuf]


aml_buffer_destroy(w) ==
  LET h == w.buf
      w1 == IF h.pool # 0 THEN w
            ELSE aml_free(IF IsSentinel(h) THEN w ELSE aml_free(w, 0, h.ptr),
                          0, h.hnd)
  IN  IF h.pool # 0 THEN w ELSE [w1 EXCEPT !.buf = NoBuf]

\* variant: the handle keeps its length
Detached_keep_length(h) ==
  Store([h EXCEPT !.ptr = h.hnd + OffsetofSize, !.data = <<>>, !.size = 0],
        0, 0)

\* the handle after detach: h->data = (char *)&h->size, length and size 0
Detached(h) ==
  Store([h EXCEPT !.ptr = h.hnd + OffsetofSize, !.data = <<>>,
                  !.length = 0, !.size = 0], 0, 0)

aml_buffer_detach(w) ==
  LET h == w.buf
      len == h.length
      alloc == IF len > 0 THEN len ELSE 1
      m == aml_malloc(w, 0, alloc)
      \* ret[0] = 0 is written without a test of ret
      w1 == IF h.pool = 0 /\ IsSentinel(h)
              THEN (IF m.r = 0 THEN nullref(m.w) ELSE m.w)
              ELSE w
  IN  [w1 EXCEPT !.buf = Detached(h)]

\* what aml_buffer_detach returns: the pointer, *length_out, and the bytes
\* the pointer holds
aml_buffer_detach_ret(w) ==
  LET h == w.buf
      len == h.length
      alloc == IF len > 0 THEN len ELSE 1
      m == aml_malloc(w, 0, alloc)
  IN  IF h.pool = 0 /\ IsSentinel(h)
        THEN [ret |-> m.r, len |-> len, bytes |-> [Fresh(alloc, 0) EXCEPT ![1] = 0]]
        ELSE [ret |-> h.ptr, len |-> len, bytes |-> h.data]

aml_buffer_clear(h) == Store([h EXCEPT !.length = 0], 0, 0)

\* variant: the storage is kept whatever its capacity
aml_buffer_reset_keep(w, max_size, j) ==
  [w EXCEPT !.buf = Store([@ EXCEPT !.length = 0], 0, 0)]

aml_buffer_reset(w, max_size, j) ==
  LET h == w.buf
      m == aml_malloc(aml_free(w, 0, h.ptr), 0, max_size + 1)
      \* h->data[0] = 0 is written without a test of h->data
      w1 == IF h.size > max_size /\ h.pool = 0
              THEN [(IF m.r = 0 THEN nullref(m.w) ELSE m.w)
                      EXCEPT !.buf = [h EXCEPT !.ptr = m.r,
                                               !.data = Fresh(max_size + 1, j),
                                               !.size = max_size]]
              ELSE w
  IN  [w1 EXCEPT !.buf = Store([w1.buf EXCEPT !.length = 0], 0, 0)]


\* variant: a growth that copies nothing into the new storage
_aml_buffer_grow_nocopy(w, length, j) ==
  LET h == w.buf
      len == W(W(length + 50) + (h.size \div 8))
  IN  IF h.pool = 0
        THEN LET m == aml_malloc(w, 0, len + 1)
                 w1 == IF h.size # 0 THEN aml_free(m.w, 0, h.ptr) ELSE m.w
             IN  [w1 EXCEPT !.buf = [h EXCEPT !.ptr = m.r,
                                              !.data = Fresh(len + 1, j),
                                              !.size = len]]
        ELSE LET a == aml_pool_alloc(w, h.pool, len + 1)
             IN  [a.w EXCEPT !.buf = [h EXCEPT !.ptr = a.r,
                                               !.data = Fresh(len + 1, j),
                                               !.size = len]]

\* variant: the new storage has no byte for the terminator
_aml_buffer_grow_short(w, length, j) ==
  LET h == w.buf
      len == W(W(length + 50) + (h.size \div 8))
      copied == memcpy(Fresh(len, j), 0, Bytes(h), h.length + 1)
  IN  IF h.pool = 0
        THEN LET m == aml_malloc(w, 0, len)
                 w1 == IF h.size # 0 THEN aml_free(m.w, 0, h.ptr) ELSE m.w
             IN  [w1 EXCEPT !.buf = [h EXCEPT !.ptr = m.r,
                                              !.data = copied,
                                              !.size = len]]
        ELSE LET a == aml_pool_alloc(w, h.pool, len)
             IN  [a.w EXCEPT !.buf = [h EXCEPT !.ptr = a.r,
                                               !.data = copied,
                                               !.size = len]]


_aml_buffer_grow(w, length, j) ==
  LET h == w.buf
      len == W(W(length + 50) + (h.size \div 8))
      copied == memcpy(Fresh(len + 1, j), 0, Bytes(h), h.length + 1)
  IN  IF h.pool = 0
        \* memcpy(data, ...) is done without a test of data
        THEN LET m == aml_malloc(w, 0, len + 1)
                 w0 == IF m.r = 0 THEN nullref(m.w) ELSE m.w
                 w1 == IF h.size # 0 THEN aml_free(w0, 0, h.ptr) ELSE w0
             IN  [w1 EXCEPT !.buf = [h EXCEPT !.ptr = m.r,
                                              !.data = copied,
                                              !.size = len]]
        ELSE LET a == aml_pool_alloc(w, h.pool, len + 1)
             IN  [a.w EXCEPT !.buf = [h EXCEPT !.ptr = a.r,
                                               !.data = IF h.length # 0
                                                          THEN copied
                                                          ELSE Fresh(len + 1, j),
                                               !.size = len]]

aml_buffer_shrink_by(h, length) ==
  LET h1 == [h EXCEPT !.length = IF @ > length THEN @ - length ELSE 0]
  IN  Store(h1, h1.length, 0)

aml_buffer_resize(w, length, j) ==
  LET w1 == IF length > w.buf.size THEN _aml_buffer_grow(w, length, j) ELSE w
  IN  [w1 EXCEPT !.buf = Store([@ EXCEPT !.length = length], length, 0)]

aml_buffer_append_ualloc(w, length, j) ==
  LET w1 == IF length + w.buf.length > w.buf.size
              THEN _aml_buffer_grow(w, length + w.buf.length, j) ELSE w
      h == w1.buf
  IN  [w1 EXCEPT !.buf = Store([h EXCEPT !.length = @ + length],
                               h.length + length, 0)]

\* variant: the span starts at the length, unpadded
aml_buffer_append_alloc_nopad(w, length, j) ==
  aml_buffer_append_ualloc(w, length, j)

aml_buffer_append_alloc(w, length, j) ==
  LET m == (8 - (w.buf.length % 8)) % 8
      w1 == IF m > 0 /\ m + w.buf.length > w.buf.size
              THEN _aml_buffer_grow(w, m + w.buf.length, j) ELSE w
      w2 == IF m > 0
              THEN [w1 EXCEPT !.buf = Store([@ EXCEPT !.length = @ + m],
                                            w1.buf.length + m, 0)]
              ELSE w1
  IN  aml_buffer_append_ualloc(w2, length, j)

\* _aml_buffer_append(h, data, length): grow if needed, copy the bytes at
\* the current length, write the terminator
_aml_buffer_append(w, data, length, j) ==
  LET w1 == IF w.buf.length + length > w.buf.size
              THEN _aml_buffer_grow(w, w.buf.length + length, j) ELSE w
      h == StoreBytes(w1.buf, w1.buf.length, data, length)
  IN  [w1 EXCEPT !.buf = Store([h EXCEPT !.length = @ + length],
                               h.length + length, 0)]

aml_buffer_append(w, data, j) == _aml_buffer_append(w, data, Len(data), j)

\* s holds the characters of the string before its terminator: strlen(s)
\* is Len(s)
aml_buffer_appends(w, s, j) == _aml_buffer_append(w, s, Len(s), j)

aml_buffer_appendsz(w, s, j) ==
  _aml_buffer_append(w, Append(s, 0), Len(s) + 1, j)

aml_buffer_appendc(w, ch, j) ==
  LET w1 == IF w.buf.length + 1 > w.buf.size
              THEN _aml_buffer_grow(w, w.buf.length + 1, j) ELSE w
      h == w1.buf
  IN  [w1 EXCEPT !.buf =
         [Store(Store(h, h.length, ch), h.length + 1, 0)
            EXCEPT !.length = @ + 1]]

\* variant: the length is reset before n is tested
aml_buffer_appendn_reset(w, ch, n, j) ==
  IF n <= 0 THEN [w EXCEPT !.buf.length = 0]
  ELSE LET w1 == IF w.buf.length + n > w.buf.size
                   THEN _aml_buffer_grow(w, w.buf.length + n, j) ELSE w
           h == w1.buf
           h1 == [h EXCEPT !.data = memset(@, h.length, ch, n)]
       IN  [w1 EXCEPT !.buf = [Store(h1, h.length + n, 0)
                                 EXCEPT !.length = @ + n]]

aml_buffer_appendn(w, ch, n, j) ==
  IF n <= 0 THEN w
  ELSE LET w1 == IF w.buf.length + n > w.buf.size
                   THEN _aml_buffer_grow(w, w.buf.length + n, j) ELSE w
           h == w1.buf
           h1 == [h EXCEPT !.data = memset(@, h.length, ch, n)]
       IN  [w1 EXCEPT !.buf = [Store(h1, h.length + n, 0)
                                 EXCEPT !.length = @ + n]]

\* aml_buffer_appendvf(h, fmt, args), text what the format prints: format
\* into the room left, grow and format again when it does not fit
aml_buffer_appendvf(w, text, j) ==
  LET n == Len(text)
      leftover == W(w.buf.size - w.buf.length)
      w1 == IF n < leftover THEN w
            ELSE _aml_buffer_grow(w, w.buf.length + n, j)
      h == StoreBytes(w1.buf, w1.buf.length, text, n)
  IN  [w1 EXCEPT !.buf = [Store(h, h.length + n, 0) EXCEPT !.length = @ + n]]

aml_buffer_appendf(w, text, j) == aml_buffer_appendvf(w, text, j)

\* variant: the new storage has room for the requested length and no more
_aml_buffer_alloc_exact(w, length, j) ==
  LET h == w.buf
      len == length
  IN  IF h.pool = 0
        THEN LET w1 == IF h.size # 0 THEN aml_free(w, 0, h.ptr) ELSE w
                 m == aml_malloc(w1, 0, len + 1)
             IN  [(IF m.r = 0 THEN nullref(m.w) ELSE m.w)
                    EXCEPT !.buf = [h EXCEPT !.ptr = m.r,
                                               !.data = Fresh(len + 1, j),
                                               !.size = len]]
        ELSE LET a == aml_pool_alloc(w, h.pool, len + 1)
             IN  [a.w EXCEPT !.buf = [h EXCEPT !.ptr = a.r,
                                               !.data = Fresh(len + 1, j),
                                               !.size = len]]

_aml_buffer_alloc(w, length, j) ==
  LET h == w.buf
      len == W(W(length + 50) + (h.size \div 8))
  IN  IF h.pool = 0
        \* the caller writes h->data[length] without a test of h->data
        THEN LET w1 == IF h.size # 0 THEN aml_free(w, 0, h.ptr) ELSE w
                 m == aml_malloc(w1, 0, len + 1)
             IN  [(IF m.r = 0 THEN nullref(m.w) ELSE m.w)
                    EXCEPT !.buf = [h EXCEPT !.ptr = m.r,
                                               !.data = Fresh(len + 1, j),
                                               !.size = len]]
        ELSE LET a == aml_pool_alloc(w, h.pool, len + 1)
             IN  [a.w EXCEPT !.buf = [h EXCEPT !.ptr = a.r,
                                               !.data = Fresh(len + 1, j),
                                               !.size = len]]

aml_buffer_alloc(w, length, j) ==
  LET w1 == IF length > w.buf.size THEN _aml_buffer_alloc(w, length, j) ELSE w
  IN  [w1 EXCEPT !.buf = Store([@ EXCEPT !.length = length], length, 0)]

\* variant: the bytes are stored behind the old content
_aml_buffer_set_behind(w, data, length, j) ==
  LET old == w.buf.length
      total == old + length
      w1 == IF total > w.buf.size THEN _aml_buffer_grow(w, total, j) ELSE w
      h == StoreBytes(w1.buf, old, data, length)
  IN  [w1 EXCEPT !.buf = Store([h EXCEPT !.length = total], total, 0)]

_aml_buffer_set(w, data, length, j) ==
  LET w1 == IF length > w.buf.size THEN _aml_buffer_alloc(w, length, j) ELSE w
      h == StoreBytes(w1.buf, 0, data, length)
  IN  [w1 EXCEPT !.buf = Store([h EXCEPT !.length = length], length, 0)]

aml_buffer_set(w, data, j) == _aml_buffer_set(w, data, Len(data), j)

aml_buffer_sets(w, s, j) == _aml_buffer_set(w, s, Len(s), j)

aml_buffer_setc(w, c, j) == _aml_buffer_set(w, <<c>>, 1, j)

aml_buffer_setn(w, ch, n, j) ==
  aml_buffer_appendn([w EXCEPT !.buf.length = 0], ch, n, j)

aml_buffer_setvf(w, text, j) ==
  aml_buffer_appendvf([w EXCEPT !.buf.length = 0], text, j)

aml_buffer_setf(w, text, j) ==
  aml_buffer_appendvf([w EXCEPT !.buf.length = 0], text, j)

-----------------------------------------------------------------------------
(* The buffer specification: a client of one buffer, heap-backed or backed *)
(* by pool 1.                                                              *)

BWorld == [pool |-> pool, heap |-> heap, buf |-> buf]

\* The bookkeeping every buffer step shares.  grew tells that the call left
\* the buffer on storage at another address, kept is min(old length, new
\* length).
\* w1 is the world the call leaves, t the world it leaves the reference
\* buffer in, d what a detach returns
BufStepTo(op, w1, t, d, content, n) ==
  /\ buf' = IF Dead(w1) THEN buf ELSE w1.buf
  /\ pool' = w1.pool
  /\ heap' = w1.heap
  /\ blast' = [op |-> op,
               grew |-> /\ buf.live
                        /\ ~Dead(w1)
                        /\ w1.buf.live
                        /\ ~IsSentinel(w1.buf)
                        /\ w1.buf.ptr # buf.ptr,
               kept |-> IF Dead(w1) THEN 0
                        ELSE Min(buf.length, w1.buf.length),
               content |-> content,
               n |-> n]
  /\ detached' =
       IF op = "detach"
         THEN [on |-> ~Dead(w1) /\ ~Dead(t),
               w |-> IF Dead(w1) \/ Dead(t) THEN NoDetached.w ELSE t,
               given |-> detached.given \cup
                         (IF buf.pool = 0
                            THEN {[a |-> d.ret, bytes |-> d.bytes]} ELSE {}),
               ret |-> d.ret, len |-> d.len]
       ELSE IF Dead(w1) \/ ~w1.buf.live \/ op \in {"init", "pool_init"}
              \/ ~detached.on \/ Dead(t)
         THEN [detached EXCEPT !.on = FALSE, !.w = NoDetached.w]
       ELSE [detached EXCEPT !.w = t]
  /\ nops' = nops + 1
  /\ UNCHANGED <<marker, created, lalloc, last, helper>>

\* a buffer of the same backing kind as buf, initialized with capacity 0
FreshLike(w1) ==
  IF buf.pool = 0
    THEN aml_buffer_init([w1 EXCEPT !.buf = NoBuf], 0, 0)
    ELSE aml_buffer_pool_init([w1 EXCEPT !.buf = NoBuf], buf.pool, 0, 0)

\* the world of the reference buffer
TWorld == detached.w

\* w1 is what the call makes of BWorld, t1 what it makes of TWorld
BufStep(op, w1, t1, content, n) ==
  /\ nops < MaxBufOps
  /\ ~heap.aborted
  /\ ~heap.nullref
  /\ \E w \in {w1} :
       \E t \in {IF op = "detach" THEN FreshLike(w)
                  ELSE IF detached.on THEN t1
                  ELSE NoDetached.w} :
         \E d \in {IF op = "detach" THEN aml_buffer_detach_ret(BWorld)
                    ELSE [ret |-> 0, len |-> 0, bytes |-> <<>>]} :
           BufStepTo(op, w, t, d, content, n)

BufInit(c) ==
  /\ ~buf.live
  /\ \E j \in JunkBytes : BufStep("init",
               aml_buffer_init(BWorld, c, j),
               aml_buffer_init(TWorld, c, j),
               <<>>,
               c)

BufPoolInit(c) ==
  /\ ~buf.live
  /\ \E j \in JunkBytes :
       BufStep("pool_init",
               aml_buffer_pool_init(BWorld, 1, c, j),
               aml_buffer_pool_init(TWorld, 1, c, j),
               <<>>,
               c)

BufDestroy ==
  /\ buf.live
  /\ BufStep("destroy",
               aml_buffer_destroy(BWorld),
               aml_buffer_destroy(TWorld),
               <<>>,
               0)

BufDetach ==
  /\ buf.live
  /\ BufStep("detach",
               aml_buffer_detach(BWorld),
               aml_buffer_detach(TWorld),
               <<>>,
               0)

BufClear ==
  /\ buf.live
  /\ BufStep("clear",
               [BWorld EXCEPT !.buf = aml_buffer_clear(@)],
               [TWorld EXCEPT !.buf = aml_buffer_clear(@)],
               <<>>,
               0)

BufReset(max_size) ==
  /\ buf.live
  /\ \E j \in JunkBytes :
       BufStep("reset",
               aml_buffer_reset(BWorld, max_size, j),
               aml_buffer_reset(TWorld, max_size, j),
               <<>>,
               max_size)

BufShrinkBy(length) ==
  /\ buf.live
  /\ BufStep("shrink_by",
               [BWorld EXCEPT !.buf = aml_buffer_shrink_by(@, length)],
               [TWorld EXCEPT !.buf = aml_buffer_shrink_by(@, length)],
               <<>>,
               length)

BufResize(length) ==
  /\ buf.live
  /\ \E j \in JunkBytes :
       BufStep("resize",
               aml_buffer_resize(BWorld, length, j),
               aml_buffer_resize(TWorld, length, j),
               <<>>,
               length)

BufAlloc(length) ==
  /\ buf.live
  /\ \E j \in JunkBytes :
       BufStep("alloc",
               aml_buffer_alloc(BWorld, length, j),
               aml_buffer_alloc(TWorld, length, j),
               <<>>,
               length)

BufAppendAlloc(length) ==
  /\ buf.live
  /\ \E j \in JunkBytes :
       BufStep("append_alloc",
               aml_buffer_append_alloc(BWorld, length, j),
               aml_buffer_append_alloc(TWorld, length, j),
               <<>>,
               length)

BufAppendUalloc(length) ==
  /\ buf.live
  /\ \E j \in JunkBytes :
       BufStep("append_ualloc",
               aml_buffer_append_ualloc(BWorld, length, j),
               aml_buffer_append_ualloc(TWorld, length, j),
               <<>>,
               length)

BufAppend(data) ==
  /\ buf.live
  /\ \E j \in JunkBytes : BufStep("append",
               aml_buffer_append(BWorld, data, j),
               aml_buffer_append(TWorld, data, j),
               <<>>,
               0)

BufAppends(s) ==
  /\ buf.live
  /\ \E j \in JunkBytes : BufStep("appends",
               aml_buffer_appends(BWorld, s, j),
               aml_buffer_appends(TWorld, s, j),
               <<>>,
               0)

BufAppendsz(s) ==
  /\ buf.live
  /\ \E j \in JunkBytes :
       BufStep("appendsz",
               aml_buffer_appendsz(BWorld, s, j),
               aml_buffer_appendsz(TWorld, s, j),
               <<>>,
               0)

BufAppendc(ch) ==
  /\ buf.live
  /\ \E j \in JunkBytes :
       BufStep("appendc",
               aml_buffer_appendc(BWorld, ch, j),
               aml_buffer_appendc(TWorld, ch, j),
               <<>>,
               0)

BufAppendn(ch, n) ==
  /\ buf.live
  /\ \E j \in JunkBytes :
       BufStep("appendn",
               aml_buffer_appendn(BWorld, ch, n, j),
               aml_buffer_appendn(TWorld, ch, n, j),
               [k \in 1..Max(n, 0) |-> ch],
               n)

BufAppendvf(text) ==
  /\ buf.live
  /\ \E j \in JunkBytes :
       BufStep("appendvf",
               aml_buffer_appendvf(BWorld, text, j),
               aml_buffer_appendvf(TWorld, text, j),
               <<>>,
               0)

BufAppendf(text) ==
  /\ buf.live
  /\ \E j \in JunkBytes :
       BufStep("appendf",
               aml_buffer_appendf(BWorld, text, j),
               aml_buffer_appendf(TWorld, text, j),
               <<>>,
               0)

BufSet(data) ==
  /\ buf.live
  /\ \E j \in JunkBytes : BufStep("set",
               aml_buffer_set(BWorld, data, j),
               aml_buffer_set(TWorld, data, j),
               data,
               0)

BufSets(s) ==
  /\ buf.live
  /\ \E j \in JunkBytes : BufStep("sets",
               aml_buffer_sets(BWorld, s, j),
               aml_buffer_sets(TWorld, s, j),
               s,
               0)

BufSetc(c) ==
  /\ buf.live
  /\ \E j \in JunkBytes : BufStep("setc",
               aml_buffer_setc(BWorld, c, j),
               aml_buffer_setc(TWorld, c, j),
               <<c>>,
               0)

BufSetn(ch, n) ==
  /\ buf.live
  /\ \E j \in JunkBytes : BufStep("setn",
               aml_buffer_setn(BWorld, ch, n, j),
               aml_buffer_setn(TWorld, ch, n, j),
               [k \in 1..Max(n, 0) |-> ch],
               n)

BufSetvf(text) ==
  /\ buf.live
  /\ \E j \in JunkBytes : BufStep("setvf",
               aml_buffer_setvf(BWorld, text, j),
               aml_buffer_setvf(TWorld, text, j),
               text,
               0)

BufSetf(text) ==
  /\ buf.live
  /\ \E j \in JunkBytes : BufStep("setf",
               aml_buffer_setf(BWorld, text, j),
               aml_buffer_setf(TWorld, text, j),
               text,
               0)



\* aml_pool_init(c0), then aml_buffer_init(c) or
\* aml_buffer_pool_init(pool, c), with the system allocator as h0
\* fills: the calls of aml_buffer_sets made right after the initialization,
\* <<>> for none, <<s>> for aml_buffer_sets(h, s)
InitBufferFilled(h0, fills) ==
  \E c0 \in BufPoolSizes, c \in BufSizes, j \in JunkBytes, p \in {0, 1},
     f \in fills :
    LET w0 == _aml_pool_init([pool |-> [q \in PoolIds |-> NoPool],
                              heap |-> h0, buf |-> NoBuf], c0)
        wb == IF Dead(w0) THEN w0
              ELSE IF p = 0 THEN aml_buffer_init(w0, c, j)
              ELSE aml_buffer_pool_init(w0, p, c, j)
        w1 == IF Dead(wb) \/ f = <<>> THEN wb
              ELSE aml_buffer_sets(wb, f[1], j)
    IN  /\ pool = w1.pool
        /\ heap = w1.heap
        /\ buf = IF Dead(w1) THEN NoBuf ELSE w1.buf
        /\ blast = [op |-> IF p = 0 THEN "init" ELSE "pool_init",
                    grew |-> FALSE, kept |-> 0, content |-> <<>>,
                    n |-> c]
        /\ detached = NoDetached
        /\ helper = NoHelper
        /\ created = [q \in PoolIds |->
                        IF q = 1 /\ w0.pool[1].live
                          THEN [c |-> c0,
                                used |-> aml_pool_used(w0.pool[1]),
                                size |-> aml_pool_size(w0.pool[1]),
                                tuned |-> FALSE]
                          ELSE NoCreated]
        /\ marker = NoMarker
        /\ lalloc = [q \in PoolIds |-> NoSpan]
        /\ last = [op |-> "init", p |-> 1, r |-> w0.pool[1].hdr, g |-> -1,
                   dropped |-> 0, arg |-> c0, align |-> 0, range |-> <<0, 0>>]
        /\ nops = 0

InitBufferAt(h0) == InitBufferFilled(h0, {<<>>})

InitBuffer == InitBufferAt(InitHeap)

NextBuffer ==
  \/ \E c \in BufSizes : BufInit(c)
  \/ \E c \in BufSizes : BufPoolInit(c)
  \/ BufDestroy
  \/ BufDetach
  \/ BufClear
  \/ \E n \in ResetSizes : BufReset(n)
  \/ \E n \in ShrinkLens : BufShrinkBy(n)
  \/ \E n \in ResizeLens : BufResize(n)
  \/ \E n \in ResizeLens : BufAlloc(n)
  \/ \E n \in ReserveLens : BufAppendAlloc(n)
  \/ \E n \in ReserveLens : BufAppendUalloc(n)
  \/ \E d \in Blobs : BufAppend(d)
  \/ \E s \in Strs : BufAppends(s)
  \/ \E s \in Strs : BufAppendsz(s)
  \/ \E ch \in Chars : BufAppendc(ch)
  \/ \E ch \in Chars, n \in RepeatCounts : BufAppendn(ch, n)
  \/ \E t \in Texts : BufAppendvf(t)
  \/ \E t \in Texts : BufAppendf(t)
  \/ \E d \in Blobs : BufSet(d)
  \/ \E s \in Strs : BufSets(s)
  \/ \E ch \in Chars : BufSetc(ch)
  \/ \E ch \in Chars, n \in RepeatCounts : BufSetn(ch, n)
  \/ \E t \in Texts : BufSetvf(t)
  \/ \E t \in Texts : BufSetf(t)

SpecBuffer == InitBuffer /\ [][NextBuffer]_vars

-----------------------------------------------------------------------------
(* Properties of the buffer. *)

\* C1: after every public operation of the buffer the byte stored at index
\* length is 0: data[length] = 0.
NulTerminated == buf.live => At(buf, buf.length) = 0

GrowingOps == {"resize", "append", "appends", "appendsz", "appendc",
               "appendn", "appendf", "appendvf", "append_alloc",
               "append_ualloc"}

\* C2: a resize, append* or append_alloc/append_ualloc call that grows the
\* storage leaves the bytes at indices [0, min(old length, new length)) as
\* they were, for heap-backed and pool-backed buffers.
GrowthPreservesContentStep ==
  (nops' = nops + 1 /\ blast'.grew /\ blast'.op \in GrowingOps) =>
    \A i \in 0..(Min(buf.length, buf'.length) - 1) : At(buf', i) = At(buf, i)
GrowthPreservesContent == [][GrowthPreservesContentStep]_vars

\* a pool-backed buffer that held bytes has grown
GrowthPreservesContentWitness ==
  /\ blast.grew
  /\ blast.op \in GrowingOps
  /\ blast.kept > 0
  /\ buf.pool # 0

-----------------------------------------------------------------------------
(* The same client with a system allocator that runs out of memory.        *)

HeapLimits == {100, 200, 260, 4096}    \* where the break must stop

InitExhaust == \E l \in HeapLimits : InitBufferAt([InitHeap EXCEPT !.limit = l])

NextExhaust ==
  \/ NextBuffer
  \/ \E len \in AllocLens : PoolAlloc(1, len)

SpecExhaust == InitExhaust /\ [][NextExhaust]_vars

\* C12: whenever the system allocator returns NULL to a pool or to a
\* heap-backed buffer, the call aborts the process and never reads, writes
\* through or stores the NULL.
ExhaustionFatal == heap.failed => (heap.aborted /\ ~heap.nullref)

-----------------------------------------------------------------------------
(* The same client, starting from a buffer that already holds a string.    *)

InitDetach == InitBufferFilled(InitHeap, {<<s>> : s \in Strs})

SpecDetach == InitDetach /\ [][NextBuffer]_vars

\* what a client can read of a buffer: aml_buffer_length and the
\* length + 1 bytes at aml_buffer_data
Observable(h) ==
  [length |-> h.length,
   data |-> [k \in 1..Min(h.length + 1, Len(Bytes(h))) |-> Bytes(h)[k]]]

\* C16: after aml_buffer_detach on a heap-backed or pool-backed buffer the
\* handle has length 0 and capacity 0 and points at its internal placeholder,
\* and from then on every sequence of operations leaves it with the same
\* length and content as the same sequence leaves a freshly initialized
\* zero-capacity buffer of the same backing kind.
DetachReuse ==
  /\ (blast.op = "detach" /\ ~Dead(BWorld)) =>
       /\ buf.length = 0
       /\ buf.size = 0
       /\ buf.ptr = buf.hnd + OffsetofSize
       /\ IsSentinel(buf)
  /\ detached.on =>
       /\ detached.w.buf.live = buf.live
       /\ Observable(detached.w.buf) = Observable(buf)

\* an operation after a detach that followed an operation gave the handle
\* content again
DetachReuseWitness ==
  /\ detached.on
  /\ blast.op # "detach"
  /\ buf.length > 0
  /\ detached.len > 0

\* the addresses of the blocks the system allocator has handed out and not
\* got back
LiveAddrs == {b.a : b \in heap.live}

DetachOwnershipStep ==
  (nops' = nops + 1 /\ blast'.op = "detach" /\ buf.pool = 0) =>
    /\ detached'.ret # 0
    /\ detached'.ret \in {b.a : b \in heap'.live}
    /\ detached'.ret \notin {g.a : g \in detached.given}
    /\ detached'.len = buf.length
    /\ \A k \in 1..buf.length :
         \E g \in detached'.given :
           g.a = detached'.ret /\ g.bytes[k] = Bytes(buf)[k]
    /\ heap'.freed = heap.freed

DetachOwnershipState ==
  \A g \in detached.given :
    /\ g.a \in LiveAddrs
    /\ g.a \notin heap.freed
    /\ buf.live => (buf.ptr # g.a /\ buf.hnd # g.a)
    /\ ~heap.bad
\* C17: aml_buffer_detach on a heap-backed buffer always returns a non-null
\* heap pointer the caller may release, reports the length before the
\* detach, and the pointer holds the content before the detach; no later
\* operation of the buffer (a second detach and destroy included) releases,
\* reallocates, writes to or returns that pointer again.
DetachOwnership == []DetachOwnershipState /\ [][DetachOwnershipStep]_vars

\* [a, a + n) lies in the payload of a block of pool h
InPool(h, a, n) ==
  \E b \in Blocks(h) : b.lo + SizeofNodeT <= a /\ a + n <= b.hi

PoolBackedStep ==
  (nops' = nops + 1 /\ buf.live /\ buf.pool # 0) =>
    LET h == pool'[buf.pool]
    IN  \* nothing is released, and what is allocated is a block of the pool
        /\ heap'.freed = heap.freed
        /\ heap'.frees = heap.frees
        /\ ~heap'.bad
        /\ \A b \in heap'.live \ heap.live :
             \E i \in 1..Len(h.chain) : h.chain[i].node = b.a
        /\ heap'.mallocs \ heap.mallocs \subseteq {buf.pool}
        /\ (buf'.live /\ ~IsSentinel(buf')) =>
             InPool(h, buf'.ptr, buf'.size + 1)
        /\ blast'.op = "detach" =>
             /\ InPool(h, detached'.ret, detached'.len + 1)
             /\ detached'.given = detached.given
             /\ heap' = heap
        /\ blast'.op = "destroy" =>
             /\ buf' = buf
             /\ pool' = pool
             /\ heap' = heap
\* C18: a pool-backed buffer never touches the system allocator: no
\* operation on it (growth, set, alloc, reset, detach, destroy) calls malloc
\* or free; growth takes fresh space from the pool, detach returns memory of
\* the pool, and destroy leaves the handle and the pool unchanged.
PoolBacked == [][PoolBackedStep]_vars

\* the pool had to add a block to serve the growth of its buffer
PoolBackedWitness ==
  /\ buf.live /\ buf.pool # 0
  /\ blast.grew
  /\ Len(pool[buf.pool].chain) > 1

\* the blocks of the system allocator that belong to a pool
PoolOwned ==
  UNION {{pool[p].hdr} \cup {pool[p].chain[i].node : i \in 1..Len(pool[p].chain)} :
         p \in {q \in PoolIds : pool[q].live}}

\* the blocks a heap-backed buffer holds: the handle and, unless data is the
\* placeholder, the storage
BufferOwned ==
  IF buf.live /\ buf.pool = 0
    THEN {buf.hnd} \cup (IF IsSentinel(buf) THEN {} ELSE {buf.ptr})
    ELSE {}

\* C19: the storage of a heap-backed buffer is never leaked and never
\* released twice: every block the buffer obtained from the system allocator
\* is still held by the buffer, was released once, or was handed out once by
\* detach; in particular every growth releases the storage it replaces.
NoLeakNoDoubleFree ==
  /\ ~heap.bad
  /\ LiveAddrs \subseteq
       PoolOwned \cup BufferOwned \cup {g.a : g \in detached.given}
  /\ BufferOwned \subseteq LiveAddrs

SetOps == {"set", "sets", "setc", "setn", "setvf", "setf"}

\* C20: after aml_buffer_set, sets, setc, setn with n > 0, setvf or setf on
\* a buffer in any prior state, the length is the length of the new content
\* and the bytes [0, length) are exactly the new content, whatever the
\* length and content were before.
SetReplaces ==
  (/\ blast.op \in SetOps
   /\ buf.live
   /\ ~Dead(BWorld)
   /\ blast.op = "setn" => blast.content # <<>>) =>
    /\ buf.length = Len(blast.content)
    /\ Len(Bytes(buf)) > buf.length
    /\ \A k \in 1..Len(blast.content) : Bytes(buf)[k] = blast.content[k]

\* a set on a buffer that held content before
SetReplacesWitness ==
  /\ blast.op \in SetOps
  /\ blast.kept > 0
  /\ nops > 0
  /\ buf.length = Len(blast.content)

\* C21: aml_buffer_setn(h, ch, n) with n <= 0 is a no-op: length, content
\* and capacity of the buffer are after the call what they were before it.
SetnNonPositiveNoop ==
  [][(nops' = nops + 1 /\ blast'.op = "setn" /\ blast'.content = <<>>) =>
       /\ buf'.length = buf.length
       /\ buf'.size = buf.size
       /\ Observable(buf') = Observable(buf)]_vars

AppendnNonPositiveStep ==
  (nops' = nops + 1 /\ blast'.op = "appendn" /\ blast'.content = <<>>) =>
    /\ buf' = buf
    /\ heap' = heap
    /\ pool' = pool
\* C22: aml_buffer_appendn(h, ch, n) with n <= 0 is a no-op: length,
\* content, capacity and storage pointer are unchanged and nothing is
\* allocated.
AppendnNonPositiveNoop == [][AppendnNonPositiveStep]_vars

\* appendn with n <= 0 on a buffer that holds content
AppendnNonPositiveNoopWitness ==
  /\ blast.op = "appendn"
  /\ blast.content = <<>>
  /\ buf.live
  /\ buf.length > 0

\* ceil(L / 8) * 8
Pad8(L) == ((L + 7) \div 8) * 8

AppendAllocStep ==
  (nops' = nops + 1 /\ blast'.op = "append_alloc" /\ ~Dead([heap |-> heap'])) =>
    /\ buf'.length = Pad8(buf.length) + blast'.n
    \* r = h->data + h->length, taken before the length is advanced
    /\ (buf'.length - blast'.n) % 8 = 0
    /\ Len(Bytes(buf')) > buf'.length
    /\ \A k \in 1..buf.length : Bytes(buf')[k] = Bytes(buf)[k]
    /\ At(buf', buf'.length) = 0
\* C23: aml_buffer_append_alloc on a buffer of length L returns a span that
\* starts at offset ceil(L/8)*8 of the storage, the new length is
\* ceil(L/8)*8 + len, and the bytes [0, L) are unchanged, whether the call
\* grew the storage never, once or twice.
AppendAlloc == [][AppendAllocStep]_vars

\* the call padded a length that was no multiple of 8 and grew the storage
\* for the padding and again for the span
AppendAllocWitness ==
  /\ blast.op = "append_alloc"
  /\ blast.grew
  /\ blast.kept % 8 # 0
  /\ buf.length = Pad8(blast.kept) + blast.n
  \* the capacity the second growth leaves after the first left
  \* Pad8(L) + 50
  /\ buf.size = buf.length + 50 + ((Pad8(blast.kept) + 50) \div 8)

\* the capacity a growth to a requested length R leaves a buffer of
\* capacity C with
Grown(R, C) == R + 50 + (C \div 8)

\* the operations that grow the storage at most once
GrowOnceOps ==
  {"resize", "alloc", "append_ualloc", "append", "appends", "appendsz",
   "appendc", "appendn", "appendvf", "appendf", "set", "sets", "setc",
   "setn", "setvf", "setf"}

GrowthFormulaStep ==
  (nops' = nops + 1 /\ buf.live /\ buf'.live /\ ~Dead([heap |-> heap'])
     /\ buf'.size # buf.size) =>
    \* the requested total length is the length the call leaves
    /\ blast'.op \in GrowOnceOps =>
         buf'.size = Grown(buf'.length, buf.size)
    /\ blast'.op = "append_alloc" =>
         LET P == Pad8(buf.length)
             C1 == IF P > buf.size THEN Grown(P, buf.size) ELSE buf.size
         IN  buf'.size = IF P + blast'.n > C1 THEN Grown(P + blast'.n, C1)
                         ELSE C1
    /\ blast'.op \in GrowOnceOps \cup {"append_alloc"} =>
         /\ Len(buf'.data) = buf'.size + 1
         /\ buf'.pool = 0 =>
              [a |-> buf'.ptr, n |-> buf'.size + 1] \in heap'.live
         /\ buf'.pool # 0 =>
              InPool(pool'[buf'.pool], buf'.ptr, buf'.size + 1)
\* C24: whenever an operation grows the storage because a requested total
\* length R exceeds the capacity C, the capacity becomes exactly
\* R + 50 + (C >> 3), with capacity + 1 bytes of storage, for heap-backed and
\* pool-backed buffers, on the preserving path (_aml_buffer_grow) and on the
\* non-preserving path (_aml_buffer_alloc).
GrowthFormula == [][GrowthFormulaStep]_vars

\* a growth from a capacity of 8 or more
GrowthFormulaWitness ==
  /\ blast.grew
  /\ blast.op \in GrowOnceOps
  /\ buf.size > buf.length + 50

ResetStep ==
  (nops' = nops + 1 /\ blast'.op = "reset" /\ ~Dead([heap |-> heap'])) =>
    /\ buf'.length = 0
    /\ At(buf', 0) = 0
    /\ (buf.pool = 0 /\ buf.size > blast'.n) =>
         /\ buf.ptr \in heap'.freed
         /\ buf.ptr \notin {b.a : b \in heap'.live}
         /\ buf'.ptr # buf.ptr
         /\ [a |-> buf'.ptr, n |-> blast'.n + 1] \in heap'.live \ heap.live
         /\ Len(buf'.data) = blast'.n + 1
         /\ buf'.size = blast'.n
    /\ (buf.pool # 0 \/ buf.size <= blast'.n) =>
         /\ buf' = aml_buffer_clear(buf)
         /\ buf'.ptr = buf.ptr
         /\ buf'.size = buf.size
         /\ heap' = heap
         /\ pool' = pool
\* C25: aml_buffer_reset(h, max_size) always leaves length 0; for a
\* heap-backed buffer whose capacity exceeds max_size the old storage is
\* released and replaced by a fresh allocation of exactly max_size + 1 bytes
\* with capacity max_size; in every other case (capacity <= max_size, or
\* pool-backed) pointer and capacity are unchanged, as for aml_buffer_clear.
Reset == [][ResetStep]_vars

\* a reset that shrank the storage of a buffer that held content
ResetWitness ==
  /\ blast.op = "reset"
  /\ buf.pool = 0
  /\ blast.grew
  /\ buf.size = blast.n
  /\ buf.length = 0

-----------------------------------------------------------------------------
(* The string splitters of aml_pool.  A C string is the bytes up to the    *)
(* first 0; mem is the duplicated string the splitter writes into, with    *)
(* its terminator, a char * is an index into mem and NULL is 0.            *)

MaxStrLen == 4       \* length of the strings given to the splitters

SplitChars == {44, 92, 97}             \* ',' '\' 'a'
SplitDelims == {44, 0}                 \* delim
SplitEscapes == {92}                   \* escape
\* "a\,b,c\\,d\,\,e", the string of the escape test
EscapeExample ==
  <<97, 92, 44, 98, 44, 99, 92, 92, 44, 100, 92, 44, 92, 44, 101>>
NULLP == <<256>>                       \* a NULL char *
SplitStrings ==
  UNION {[1..k -> SplitChars] : k \in 0..MaxStrLen}
    \cup {EscapeExample, NULLP}

\* the C string at mem + p
RECURSIVE CStr(_, _)
CStr(mem, p) == IF mem[p] = 0 THEN <<>> ELSE <<mem[p]>> \o CStr(mem, p + 1)

\* the strings an array of char * points to, up to its NULL entry
RECURSIVE Tokens(_, _, _)
Tokens(mem, res, i) ==
  IF i > Len(res) \/ res[i] = 0 THEN <<>>
  ELSE <<CStr(mem, res[i])>> \o Tokens(mem, res, i + 1)

\* while (*p != 0) { if (*p == delim) num++; p++; }
RECURSIVE SplitCount(_, _, _)
SplitCount(mem, p, delim) ==
  IF mem[p] = 0 THEN 0
  ELSE (IF mem[p] = delim THEN 1 ELSE 0) + SplitCount(mem, p + 1, delim)

\* variant: a delimiter at the end of the string starts no token
RECURSIVE SplitScan_notail(_, _, _, _)
SplitScan_notail(mem, s, wr, delim) ==
  IF mem[s] = 0 THEN [mem |-> mem, res |-> wr]
  ELSE IF mem[s] = delim
    THEN SplitScan_notail([mem EXCEPT ![s] = 0], s + 1,
                          IF mem[s + 1] = 0 THEN wr ELSE Append(wr, s + 1),
                          delim)
    ELSE SplitScan_notail(mem, s + 1, wr, delim)

\* while (*s != 0) { if (*s == delim) { *s = 0; s++; *wr = s; wr++; } else s++; }
RECURSIVE SplitScan(_, _, _, _)
SplitScan(mem, s, wr, delim) ==
  IF mem[s] = 0 THEN [mem |-> mem, res |-> wr]
  ELSE IF mem[s] = delim
    THEN SplitScan([mem EXCEPT ![s] = 0], s + 1, Append(wr, s + 1), delim)
    ELSE SplitScan(mem, s + 1, wr, delim)

\* variant: an array of one entry is allocated for a NULL string
_aml_pool_split_alloc(delim, str) ==
  IF str = NULLP
    THEN [mem |-> <<>>, res |-> <<0>>, num |-> 0, cap |-> 1, pcalls |-> 1]
  ELSE
  LET mem == str \o <<0>>
      num == 1 + SplitCount(mem, 1, delim)
      sc == SplitScan(mem, 1, <<1>>, delim)
  IN  [mem |-> sc.mem, res |-> Append(sc.res, 0), num |-> num,
       cap |-> num + 1, pcalls |-> 1]

\* _aml_pool_split(h, num_splits, delim, s): mem is the string after the
\* call, res the array returned, cap the entries allocated for it, pcalls
\* the calls of aml_pool functions made; for s = NULL the array is the
\* static nil
_aml_pool_split(delim, str) ==
  IF str = NULLP
    THEN [mem |-> <<>>, res |-> <<0>>, num |-> 0, cap |-> 0, pcalls |-> 0]
  ELSE
  LET mem == str \o <<0>>
      num == 1 + SplitCount(mem, 1, delim)
      sc == SplitScan(mem, 1, <<1>>, delim)
  IN  [mem |-> sc.mem, res |-> Append(sc.res, 0), num |-> num,
       cap |-> num + 1, pcalls |-> 1]

\* variant: every entry is kept
Compact_all(mem, res, p, ep, wp) == [res |-> res, wp |-> ep]

\* while (p < ep) { if (*p[0] != 0) *wp++ = *p; p++; }
RECURSIVE Compact(_, _, _, _, _)
Compact(mem, res, p, ep, wp) ==
  IF p >= ep THEN [res |-> res, wp |-> wp]
  ELSE IF mem[res[p]] # 0
    THEN Compact(mem, [res EXCEPT ![wp] = res[p]], p + 1, ep, wp + 1)
    ELSE Compact(mem, res, p + 1, ep, wp)

\* _aml_pool_split2: the array of _aml_pool_split compacted in place,
\* *num_splits = wp - res, *wp = NULL
_aml_pool_split2(delim, str) ==
  LET r == _aml_pool_split(delim, str)
      c == Compact(r.mem, r.res, 1, 1 + r.num, 1)
  IN  [mem |-> r.mem, res |-> [c.res EXCEPT ![c.wp] = 0], num |-> c.wp - 1,
       cap |-> r.cap, pcalls |-> r.pcalls]

\* first pass of _aml_pool_split_with_escape: the delimiters that count
RECURSIVE EscapeCount(_, _, _, _, _)
EscapeCount(mem, c, escape_next, delim, escape) ==
  IF mem[c] = 0 THEN 0
  ELSE IF escape_next THEN EscapeCount(mem, c + 1, FALSE, delim, escape)
  ELSE IF mem[c] = escape THEN EscapeCount(mem, c + 1, TRUE, delim, escape)
  ELSE (IF mem[c] = delim THEN 1 ELSE 0)
         + EscapeCount(mem, c + 1, FALSE, delim, escape)

\* variant: the token is recorded before the delimiter is overwritten
RECURSIVE EscapeScan_early(_, _, _, _, _, _, _)
EscapeScan_early(mem, c, current, escape_next, result, delim, escape) ==
  IF mem[c] = 0
    THEN [mem |-> [mem EXCEPT ![current] = 0], result |-> result]
  ELSE IF escape_next
    THEN EscapeScan_early([mem EXCEPT ![current] = mem[c]], c + 1,
                          current + 1, FALSE, result, delim, escape)
  ELSE IF mem[c] = escape
    THEN EscapeScan_early(mem, c + 1, current, TRUE, result, delim, escape)
  ELSE IF mem[c] = delim
    THEN EscapeScan_early([mem EXCEPT ![current] = 0], c + 1, current + 1,
                          FALSE, Append(result, current), delim, escape)
  ELSE EscapeScan_early([mem EXCEPT ![current] = mem[c]], c + 1,
                        current + 1, FALSE, result, delim, escape)


\* variant: the character after an escape is tested like any other
RECURSIVE EscapeScan_literal(_, _, _, _, _, _, _)
EscapeScan_literal(mem, c, current, escape_next, result, delim, escape) ==
  IF mem[c] = 0
    THEN [mem |-> [mem EXCEPT ![current] = 0], result |-> result]
  ELSE IF mem[c] = escape /\ ~escape_next
    THEN EscapeScan_literal(mem, c + 1, current, TRUE, result, delim, escape)
  ELSE IF mem[c] = delim
    THEN EscapeScan_literal([mem EXCEPT ![current] = 0], c + 1, current + 1,
                            FALSE, Append(result, current + 1), delim, escape)
  ELSE EscapeScan_literal([mem EXCEPT ![current] = mem[c]], c + 1,
                          current + 1, FALSE, result, delim, escape)

\* second pass: the string is rewritten in place behind the reading position
RECURSIVE EscapeScan(_, _, _, _, _, _, _)
EscapeScan(mem, c, current, escape_next, result, delim, escape) ==
  IF mem[c] = 0
    THEN [mem |-> [mem EXCEPT ![current] = 0], result |-> result]
  ELSE IF escape_next
    THEN EscapeScan([mem EXCEPT ![current] = mem[c]], c + 1, current + 1,
                    FALSE, result, delim, escape)
  ELSE IF mem[c] = escape
    THEN EscapeScan(mem, c + 1, current, TRUE, result, delim, escape)
  ELSE IF mem[c] = delim
    THEN EscapeScan([mem EXCEPT ![current] = 0], c + 1, current + 1, FALSE,
                    Append(result, current + 1), delim, escape)
  ELSE EscapeScan([mem EXCEPT ![current] = mem[c]], c + 1, current + 1,
                  FALSE, result, delim, escape)

\* _aml_pool_split_with_escape: num is idx, the entries written before the
\* NULL, cap the count + 1 entries allocated; for p = NULL the array is the
\* static nil
_aml_pool_split_with_escape(delim, escape, str) ==
  IF str = NULLP
    THEN [mem |-> <<>>, res |-> <<0>>, num |-> 0, cap |-> 0, pcalls |-> 0]
  ELSE
  LET mem == str \o <<0>>
      count == 1 + EscapeCount(mem, 1, FALSE, delim, escape)
      sc == EscapeScan(mem, 1, 1, FALSE, <<1>>, delim, escape)
  IN  [mem |-> sc.mem, res |-> Append(sc.result, 0), num |-> Len(sc.result),
       cap |-> count + 1, pcalls |-> 2]

_aml_pool_split_with_escape2(delim, escape, str) ==
  LET r == _aml_pool_split_with_escape(delim, escape, str)
      c == Compact(r.mem, r.res, 1, 1 + r.num, 1)
  IN  [mem |-> r.mem, res |-> [c.res EXCEPT ![c.wp] = 0], num |-> c.wp - 1,
       cap |-> r.cap, pcalls |-> r.pcalls]

\* no pool, no buffer: the splitters are followed by what they return
NoProgram ==
  /\ pool = [q \in PoolIds |-> NoPool]
  /\ heap = InitHeap
  /\ created = [q \in PoolIds |-> NoCreated]
  /\ marker = NoMarker
  /\ lalloc = [q \in PoolIds |-> NoSpan]
  /\ last = [op |-> "none", p |-> 1, r |-> 0, g |-> -1, dropped |-> 0,
             arg |-> 0, align |-> 0, range |-> <<0, 0>>]
  /\ nops = 0
  /\ buf = NoBuf
  /\ blast = NoBufOp
  /\ detached = NoDetached

\* the helper returned r for the input in helper; its caller passed
\* p ? aml_pool_strdup(h, p) : NULL
Returned(op, r) ==
  /\ helper.op = "input"
  /\ helper' = [op |-> op, str |-> helper.str, delim |-> helper.delim,
                escape |-> helper.escape, mem |-> r.mem, res |-> r.res,
                num |-> r.num, cap |-> r.cap,
                pcalls |-> r.pcalls + (IF helper.str = NULLP THEN 0 ELSE 1)]
  /\ UNCHANGED <<pool, heap, marker, created, lalloc, last, nops, buf, blast,
                 detached>>

PoolSplit == Returned("split", _aml_pool_split(helper.delim, helper.str))

PoolSplit2 == Returned("split2", _aml_pool_split2(helper.delim, helper.str))

PoolSplitWithEscape ==
  /\ helper.delim # helper.escape
  /\ Returned("split_with_escape",
              _aml_pool_split_with_escape(helper.delim, helper.escape,
                                          helper.str))

PoolSplitWithEscape2 ==
  /\ helper.delim # helper.escape
  /\ Returned("split_with_escape2",
              _aml_pool_split_with_escape2(helper.delim, helper.escape,
                                           helper.str))

InitSplit ==
  /\ NoProgram
  /\ \E str \in SplitStrings, delim \in SplitDelims, escape \in SplitEscapes :
       helper = [op |-> "input", str |-> str, delim |-> delim,
                 escape |-> escape]

NextSplit ==
  \/ PoolSplit
  \/ PoolSplit2
  \/ PoolSplitWithEscape
  \/ PoolSplitWithEscape2

SpecSplit == InitSplit /\ [][NextSplit]_vars

\* the number of i with str[i] = ch
Occurrences(str, ch) == Cardinality({i \in 1..Len(str) : str[i] = ch})

\* tokens joined with the delimiter
RECURSIVE Join(_, _)
Join(tokens, delim) ==
  IF tokens = <<>> THEN <<>>
  ELSE IF Len(tokens) = 1 THEN tokens[1]
  ELSE tokens[1] \o <<delim>> \o Join(Tail(tokens), delim)

\* C26: for every string s and delimiter d, aml_pool_split returns exactly
\* (occurrences of d in s) + 1 tokens followed by a NULL entry, empty
\* segments included, and the tokens joined with d are s.
SplitRoundTrip ==
  (helper.op = "split" /\ helper.str # NULLP) =>
    LET n == Occurrences(helper.str, helper.delim) + 1
        tokens == Tokens(helper.mem, helper.res, 1)
    IN  /\ helper.num = n
        /\ Len(helper.res) = n + 1
        /\ \A i \in 1..n : helper.res[i] # 0
        /\ helper.res[n + 1] = 0
        /\ Len(tokens) = n
        /\ Join(tokens, helper.delim) = helper.str

\* a string with an empty segment in the middle and one at the end
SplitRoundTripWitness ==
  /\ helper.op = "split"
  /\ helper.num = 3
  /\ Tokens(helper.mem, helper.res, 1) = <<<<97>>, <<>>, <<>>>>

NonEmpty(token) == token # <<>>

\* the tokens the keeping splitter returns for the input in helper
KeptTokens ==
  LET r == IF helper.op = "split2"
             THEN _aml_pool_split(helper.delim, helper.str)
             ELSE _aml_pool_split_with_escape(helper.delim, helper.escape,
                                              helper.str)
  IN  Tokens(r.mem, r.res, 1)

\* C27: aml_pool_split2 and aml_pool_split_with_escape2 return exactly the
\* non-empty tokens of aml_pool_split and aml_pool_split_with_escape, in the
\* same order, followed by a NULL entry, and report the number of non-empty
\* tokens.
DropsEmptyTokens ==
  (helper.op \in {"split2", "split_with_escape2"} /\ helper.str # NULLP) =>
    LET kept == SelectSeq(KeptTokens, NonEmpty)
    IN  /\ Tokens(helper.mem, helper.res, 1) = kept
        /\ helper.num = Len(kept)
        /\ \A i \in 1..helper.num : helper.res[i] # 0
        /\ helper.res[helper.num + 1] = 0

\* "a,,\" split on ',': the empty token in the middle is dropped and the
\* two others keep their order
DropsEmptyTokensWitness ==
  /\ helper.op = "split2"
  /\ KeptTokens = <<<<97>>, <<>>, <<92>>>>
  /\ Tokens(helper.mem, helper.res, 1) = <<<<97>>, <<92>>>>
  /\ helper.num = 2

\* str[i] is immediately preceded by an escape character that is not
\* itself escaped
RECURSIVE Escaped(_, _, _)
Escaped(str, i, escape) ==
  /\ i > 1
  /\ str[i - 1] = escape
  /\ ~Escaped(str, i - 1, escape)

\* the positions of the delimiters that are not escaped
UnescapedDelims(str, delim, escape) ==
  {i \in 1..Len(str) : str[i] = delim /\ ~Escaped(str, i, escape)}

\* the tokens of str from position i on, cur being the token under way
RECURSIVE EscapeTokens(_, _, _, _, _)
EscapeTokens(str, i, cur, delim, escape) ==
  IF i > Len(str) THEN <<cur>>
  ELSE IF Escaped(str, i, escape)
    THEN EscapeTokens(str, i + 1, Append(cur, str[i]), delim, escape)
  ELSE IF str[i] = escape
    THEN EscapeTokens(str, i + 1, cur, delim, escape)
  ELSE IF str[i] = delim
    THEN <<cur>> \o EscapeTokens(str, i + 1, <<>>, delim, escape)
  ELSE EscapeTokens(str, i + 1, Append(cur, str[i]), delim, escape)

\* C28: aml_pool_split_with_escape keeps a character that follows an
\* unescaped escape character literally, ends a token at each unescaped
\* delimiter, removes the escape characters, returns 1 + (number of
\* unescaped delimiters) tokens and never writes past the pointer array it
\* allocated; "a\,b,c\\,d\,\,e" on ',' with escape '\' gives "a,b", "c\",
\* "d,,e".
EscapeSplit ==
  (helper.op = "split_with_escape" /\ helper.str # NULLP) =>
    LET tokens == Tokens(helper.mem, helper.res, 1)
    IN  /\ tokens = EscapeTokens(helper.str, 1, <<>>, helper.delim,
                                 helper.escape)
        /\ helper.num =
             1 + Cardinality(UnescapedDelims(helper.str, helper.delim,
                                             helper.escape))
        /\ Len(tokens) = helper.num
        /\ helper.res[helper.num + 1] = 0
        /\ Len(helper.res) <= helper.cap
        /\ (helper.str = EscapeExample /\ helper.delim = 44) =>
             tokens = <<<<97, 44, 98>>, <<99, 92>>, <<100, 44, 44, 101>>>>

EscapeSplitWitness ==
  /\ helper.op = "split_with_escape"
  /\ helper.str = EscapeExample
  /\ helper.delim = 44
  /\ helper.num = 3
  /\ Tokens(helper.mem, helper.res, 1) =
       <<<<97, 44, 98>>, <<99, 92>>, <<100, 44, 44, 101>>>>

-----------------------------------------------------------------------------
(* Base64 in aml_pool.  Bytes are 0..255; an index of a C array is one     *)
(* less than the index of the sequence that models it.                     *)

MaxDataLen == 3      \* length of the byte sequences given to the encoder
MaxB64Len == 5       \* length of the strings given to the decoder

DataBytes == {0, 1, 77, 128, 251, 255}
DataSeqs == UNION {[1..k -> DataBytes] : k \in 0..MaxDataLen}
B64Chars == {65, 61, 33, 200}          \* 'A' '=' '!' and a byte above 127
B64Texts == UNION {[1..k -> B64Chars] : k \in 0..MaxB64Len}

\* "ABCDEFGHIJKLMNOPQRSTUVWXYZabcdefghijklmnopqrstuvwxyz0123456789+/"
b64_table ==
  [k \in 1..26 |-> 64 + k] \o [k \in 1..26 |-> 96 + k]
    \o [k \in 1..10 |-> 47 + k] \o <<43, 47>>

b64_dec_table ==
  <<
    255, 255, 255, 255, 255, 255, 255, 255, 255, 255, 255, 255, 255, 255, 255, 255,
    255, 255, 255, 255, 255, 255, 255, 255, 255, 255, 255, 255, 255, 255, 255, 255,
    255, 255, 255, 255, 255, 255, 255, 255, 255, 255, 255,  62, 255, 255, 255,  63,
     52,  53,  54,  55,  56,  57,  58,  59,  60,  61, 255, 255, 255, 255, 255, 255,
    255,   0,   1,   2,   3,   4,   5,   6,   7,   8,   9,  10,  11,  12,  13,  14,
     15,  16,  17,  18,  19,  20,  21,  22,  23,  24,  25, 255, 255, 255, 255, 255,
    255,  26,  27,  28,  29,  30,  31,  32,  33,  34,  35,  36,  37,  38,  39,  40,
     41,  42,  43,  44,  45,  46,  47,  48,  49,  50,  51, 255, 255, 255, 255, 255,
    255, 255, 255, 255, 255, 255, 255, 255, 255, 255, 255, 255, 255, 255, 255, 255,
    255, 255, 255, 255, 255, 255, 255, 255, 255, 255, 255, 255, 255, 255, 255, 255,
    255, 255, 255, 255, 255, 255, 255, 255, 255, 255, 255, 255, 255, 255, 255, 255,
    255, 255, 255, 255, 255, 255, 255, 255, 255, 255, 255, 255, 255, 255, 255, 255,
    255, 255, 255, 255, 255, 255, 255, 255, 255, 255, 255, 255, 255, 255, 255, 255,
    255, 255, 255, 255, 255, 255, 255, 255, 255, 255, 255, 255, 255, 255, 255, 255,
    255, 255, 255, 255, 255, 255, 255, 255, 255, 255, 255, 255, 255, 255, 255, 255,
    255, 255, 255, 255, 255, 255, 255, 255, 255, 255, 255, 255, 255, 255, 255, 255
  >>

\* the while loop of aml_pool_base64_encode from data[i - 1] on
RECURSIVE EncodeChunks(_, _)
EncodeChunks(data, i) ==
  IF i > Len(data) THEN <<>>
  ELSE LET octet_a == data[i]
           octet_b == IF i + 1 <= Len(data) THEN data[i + 1] ELSE 0
           octet_c == IF i + 2 <= Len(data) THEN data[i + 2] ELSE 0
           triple == octet_a * 65536 + octet_b * 256 + octet_c
       IN  << b64_table[((triple \div 262144) % 64) + 1],
              b64_table[((triple \div 4096) % 64) + 1],
              b64_table[((triple \div 64) % 64) + 1],
              b64_table[(triple % 64) + 1] >>
             \o EncodeChunks(data, i + 3)

\* variant: no '=' is written over the last characters
aml_pool_base64_encode_nopad(data) ==
  [null |-> FALSE, str |-> EncodeChunks(data, 1)]

\* variant: one '=' at most is written
aml_pool_base64_encode_pad1(data) ==
  IF Len(data) = 0 THEN [null |-> FALSE, str |-> <<>>]
  ELSE LET encoded_len == 4 * ((Len(data) + 2) \div 3)
           encoded == EncodeChunks(data, 1)
       IN  [null |-> FALSE,
            str |-> [k \in 1..encoded_len |->
                      IF Len(data) % 3 > 0 /\ k = encoded_len THEN 61
                      ELSE encoded[k]]]


\* aml_pool_base64_encode(pool, data, data_len) with pool # NULL: the
\* string returned
aml_pool_base64_encode(data) ==
  IF Len(data) = 0 THEN [null |-> FALSE, str |-> <<>>]
  ELSE LET encoded_len == 4 * ((Len(data) + 2) \div 3)
           encoded == EncodeChunks(data, 1)
           mod == Len(data) % 3
       IN  [null |-> FALSE,
            str |-> [k \in 1..encoded_len |->
                      IF mod > 0 /\ k = encoded_len THEN 61
                      ELSE IF mod = 1 /\ k = encoded_len - 1 THEN 61
                      ELSE encoded[k]]]

\* variant: a byte that is not in the table counts as 0
DecodeChar_lenient(c) ==
  IF c = 61 \/ b64_dec_table[c + 1] = 255 THEN 0 ELSE b64_dec_table[c + 1]

\* one character of the for loop: its six bits, or 255 for return NULL
DecodeChar(c) == IF c = 61 THEN 0 ELSE b64_dec_table[c + 1]

\* the for loop over at most four characters from b64[i - 1] on: val, or -1
\* when a character is invalid
RECURSIVE DecodeQuad(_, _, _, _)
DecodeQuad(b64, i, k, shift) ==
  IF k >= 4 \/ i > Len(b64) THEN 0
  ELSE LET c == DecodeChar(b64[i])
           rest == DecodeQuad(b64, i + 1, k + 1, shift \div 64)
       IN  IF c = 255 \/ rest = -1 THEN -1 ELSE c * shift + rest

\* the while loop of aml_pool_base64_decode: the bytes written to decoded,
\* or failed when it returned NULL; overrun when it wrote past the
\* decoded_max_len + 1 bytes allocated
RECURSIVE DecodeChunks(_, _, _, _)
DecodeChunks(b64, i, decoded, room) ==
  IF i > Len(b64)
    THEN [failed |-> FALSE, decoded |-> decoded, overrun |-> FALSE]
  ELSE LET val == DecodeQuad(b64, i, 0, 262144)
       IN  IF val = -1
             THEN [failed |-> TRUE, decoded |-> decoded, overrun |-> FALSE]
           ELSE LET r == DecodeChunks(b64, i + 4,
                                      decoded \o << (val \div 65536) % 256,
                                                    (val \div 256) % 256,
                                                    val % 256 >>, room)
                IN  [r EXCEPT !.overrun = r.overrun \/ Len(decoded) + 3 > room]

\* aml_pool_base64_decode(pool, out_len, b64) with pool # NULL and
\* b64 # NULL: null is a NULL result, len is *out_len, out the len bytes at
\* the result
aml_pool_base64_decode(b64) ==
  LET in_len == Len(b64)
      pad == (IF in_len >= 1 /\ b64[in_len] = 61 THEN 1 ELSE 0)
               + (IF in_len >= 2 /\ b64[in_len - 1] = 61 THEN 1 ELSE 0)
      decoded_max_len == 3 * (in_len \div 4)
  IN  IF in_len = 0
        THEN [null |-> FALSE, len |-> 0, out |-> <<>>, overrun |-> FALSE]
      ELSE
        LET dl == DecodeChunks(b64, 1, <<>>, decoded_max_len + 1)
            decoded_len == Len(dl.decoded) - pad
        IN  IF dl.failed
              THEN [null |-> TRUE, len |-> 0, out |-> <<>>,
                    overrun |-> dl.overrun]
            ELSE [null |-> FALSE, len |-> decoded_len,
                  out |-> SubSeq(dl.decoded, 1, decoded_len),
                  overrun |-> dl.overrun]

\* encode(data) called for the byte sequence in helper
Base64Encode ==
  /\ helper.op = "data"
  /\ \E e \in {aml_pool_base64_encode(helper.data)} :
       helper' = [helper EXCEPT !.op = "encode", !.b64 = e.str,
                                !.null = e.null]
  /\ UNCHANGED <<pool, heap, marker, created, lalloc, last, nops, buf, blast,
                 detached>>

\* decode called for the string in helper: a given one or the one encode
\* returned
Base64Decode ==
  /\ helper.op \in {"text", "encode"}
  /\ \E d \in {aml_pool_base64_decode(helper.b64)} :
       helper' = [helper EXCEPT !.op = "decode", !.from = helper.op,
                                !.null = d.null, !.len = d.len,
                                !.out = d.out, !.overrun = d.overrun]
  /\ UNCHANGED <<pool, heap, marker, created, lalloc, last, nops, buf, blast,
                 detached>>

InitBase64 ==
  /\ NoProgram
  /\ \/ \E data \in DataSeqs :
          helper = [op |-> "data", from |-> "none", data |-> data,
                    b64 |-> <<>>, null |-> FALSE, len |-> 0, out |-> <<>>,
                    overrun |-> FALSE]
     \/ \E b64 \in B64Texts :
          helper = [op |-> "text", from |-> "none", data |-> <<>>,
                    b64 |-> b64, null |-> FALSE, len |-> 0, out |-> <<>>,
                    overrun |-> FALSE]

NextBase64 ==
  \/ Base64Encode
  \/ Base64Decode

SpecBase64 == InitBase64 /\ [][NextBase64]_vars

\* C29: for every byte sequence x, the empty one and those with zero bytes
\* included, decode(encode(x)) succeeds with length |x| and bytes x;
\* encode of the empty sequence is a non-null empty string and decode("")
\* gives a zero-length result.
Base64RoundTrip ==
  /\ helper.op = "encode" =>
       /\ ~helper.null
       /\ helper.data = <<>> => helper.b64 = <<>>
  /\ (helper.op = "decode" /\ helper.from = "encode") =>
       /\ ~helper.null
       /\ ~helper.overrun
       /\ helper.len = Len(helper.data)
       /\ helper.out = helper.data
  /\ (helper.op = "decode" /\ helper.b64 = <<>>) =>
       /\ helper.len = 0
       /\ helper.out = <<>>

\* a two-byte sequence with a zero byte has gone through "AP8=" and back
Base64RoundTripWitness ==
  /\ helper.op = "decode"
  /\ helper.from = "encode"
  /\ helper.data = <<0, 255>>
  /\ helper.b64 = <<65, 80, 56, 61>>
  /\ helper.out = <<0, 255>>
  /\ helper.len = 2

\* the characters the encoder writes, '=' apart
Base64Alphabet == {b64_table[k] : k \in 1..64}

\* the positions of b64 holding a byte that is neither in the alphabet
\* nor '='
InvalidAt(b64) ==
  {i \in 1..Len(b64) : b64[i] \notin Base64Alphabet \cup {61}}

\* C30: for every string with at least one byte that is neither in the
\* base64 alphabet nor '=', aml_pool_base64_decode returns NULL and sets
\* *out_len to 0, and does not abort.
Base64DecodeFailure ==
  /\ \A c \in 1..255 :
       c \notin Base64Alphabet \cup {61} => DecodeChar(c) = 255
  /\ (helper.op = "decode" /\ InvalidAt(helper.b64) # {}) =>
       /\ helper.null
       /\ helper.len = 0
       /\ helper.out = <<>>
       /\ ~helper.overrun
       /\ ~heap.aborted

\* "AAAA!": a whole group of four has been decoded before the invalid byte
Base64DecodeFailureWitness ==
  /\ helper.op = "decode"
  /\ helper.from = "text"
  /\ helper.b64 = <<65, 65, 65, 65, 33>>
  /\ helper.null
  /\ helper.len = 0

\* what the splitter without escapes returns for the input in helper
Unescaped ==
  IF helper.op = "split_with_escape"
    THEN _aml_pool_split(helper.delim, helper.str)
    ELSE _aml_pool_split2(helper.delim, helper.str)

\* C39: for every string without the escape character,
\* aml_pool_split_with_escape returns the tokens and the count of
\* aml_pool_split, and aml_pool_split_with_escape2 those of aml_pool_split2.
EscapeFreeEquivalence ==
  (/\ helper.op \in {"split_with_escape", "split_with_escape2"}
   /\ helper.str # NULLP
   /\ \A i \in 1..Len(helper.str) : helper.str[i] # helper.escape) =>
    /\ Tokens(helper.mem, helper.res, 1)
         = Tokens(Unescaped.mem, Unescaped.res, 1)
    /\ helper.num = Unescaped.num

\* ",a,a" split on ',' with escape '\': three tokens, the first empty
EscapeFreeEquivalenceWitness ==
  /\ helper.op = "split_with_escape"
  /\ helper.str = <<44, 97, 44, 97>>
  /\ helper.delim = 44
  /\ helper.num = 3
  /\ Tokens(helper.mem, helper.res, 1) = <<<<>>, <<97>>, <<97>>>>
  /\ Unescaped.num = 3

\* the number of '=' at the end of str
RECURSIVE TrailingPad(_)
TrailingPad(str) ==
  IF str = <<>> \/ str[Len(str)] # 61 THEN 0
  ELSE 1 + TrailingPad(SubSeq(str, 1, Len(str) - 1))

\* C40: for every input of n > 0 bytes, aml_pool_base64_encode returns
\* exactly 4 * ceil(n / 3) characters before the terminator, all of them
\* characters of the standard alphabet except the '=' at the end, of which
\* there are exactly (3 - n mod 3) mod 3.
Base64EncodeShape ==
  (helper.op = "encode" /\ Len(helper.data) > 0) =>
    LET n == Len(helper.data)
        pads == (3 - (n % 3)) % 3
        str == helper.b64
    IN  /\ ~helper.null
        /\ Len(str) = 4 * ((n \div 3) + (IF n % 3 = 0 THEN 0 ELSE 1))
        /\ TrailingPad(str) = pads
        /\ \A k \in 1..(Len(str) - pads) :
             str[k] \in {b64_table[m] : m \in 1..64}
        /\ \A k \in 1..Len(str) : str[k] # 0

\* one byte 251 is encoded as "+w==": two characters and two '='
Base64EncodeShapeWitness ==
  /\ helper.op = "encode"
  /\ helper.data = <<251>>
  /\ helper.b64 = <<43, 119, 61, 61>>

\* C36: for every string aml_pool_base64_decode accepts, of any length,
\* every byte it writes lies inside the 3 * floor(len / 4) + 1 bytes it
\* allocated, and the length it reports is at most 3 * floor(len / 4).
Base64DecodeInBounds ==
  (helper.op = "decode" /\ ~helper.null) =>
    /\ ~helper.overrun
    /\ helper.len <= 3 * (Len(helper.b64) \div 4)

-----------------------------------------------------------------------------
(* The array duplicators of aml_pool.  The allocation is a sequence of     *)
(* bytes at address base; a char * stored in it takes SizeofCharPtr bytes, *)
(* low byte first; an offset is counted from base.                         *)

MaxArrLen == 2       \* entries of the arrays given to the duplicators

SizeofCharPtr == 8
DupStrs == {<<>>, <<97>>, <<98, 98>>}  \* "", "a", "bb"
DupArrays == UNION {[1..k -> DupStrs \cup {NULLP}] : k \in 0..MaxArrLen}
DupBases == {4096, 4200}               \* what aml_pool_alloc returned

\* the bytes of the pointer value addr (addr < 2^24)
PtrBytes(addr) ==
  [i \in 1..SizeofCharPtr |->
    IF i = 1 THEN addr % 256
    ELSE IF i = 2 THEN (addr \div 256) % 256
    ELSE IF i = 3 THEN (addr \div 65536) % 256
    ELSE 0]

\* bytes stored at offset off of blk
WriteAt(blk, off, bytes) ==
  [k \in 1..Len(blk) |->
    IF k > off /\ k <= off + Len(bytes) THEN bytes[k - off] ELSE blk[k]]

\* the entries of a before its first NULL
RECURSIVE UpToNull(_)
UpToNull(a) ==
  IF a = <<>> \/ Head(a) = NULLP THEN <<>>
  ELSE <<Head(a)>> \o UpToNull(Tail(a))

\* strlen of each of the strings, plus extra bytes for each
RECURSIVE SumLens(_, _)
SumLens(strs, extra) ==
  IF strs = <<>> THEN 0
  ELSE Len(Head(strs)) + extra + SumLens(Tail(strs), extra)

\* count_bytes_in_array(a, n): the value returned; *n is not assigned
count_bytes_in_array(a) ==
  SizeofCharPtr + SumLens(UpToNull(a), SizeofCharPtr + 1)

\* count_bytes_in_arrayn(a, num) for an array without NULL among its first
\* num entries
count_bytes_in_arrayn(a, num) ==
  SizeofCharPtr * (num + 1) + SumLens(SubSeq(a, 1, num), 1)

\* the copying loop of aml_pool_strdupa and aml_pool_strdupan from entry i
\* on: rp and m are offsets, the loop ends at entry ae or, when stop, at
\* a NULL entry; then *rp = NULL
RECURSIVE DupLoop(_, _, _, _, _, _, _, _)
DupLoop(a, i, ae, stop, blk, rp, m, base) ==
  IF i > ae \/ (stop /\ a[i] = NULLP)
    THEN WriteAt(blk, rp, PtrBytes(0))
  ELSE DupLoop(a, i + 1, ae, stop,
               WriteAt(WriteAt(blk, rp, PtrBytes(base + m)), m,
                       a[i] \o <<0>>),
               rp + SizeofCharPtr, m + Len(a[i]) + 1, base)

\* aml_pool_strdupa(pool, a) for a # NULL: the allocation after the call,
\* j being the bytes it held before; n stays 0, so m starts at r
aml_pool_strdupa(a, base, j) ==
  LET n == 0
      len == count_bytes_in_array(a)
  IN  [fault |-> FALSE, base |-> base,
       blk |-> DupLoop(a, 1, Len(a), TRUE, [k \in 1..len |-> j], 0,
                       SizeofCharPtr * n, base)]

\* aml_pool_strdupan(pool, a, n) for a # NULL: strlen of a NULL entry is
\* a fault
aml_pool_strdupan(a, n, base, j) ==
  IF \E i \in 1..n : a[i] = NULLP
    THEN [fault |-> TRUE, base |-> base, blk |-> <<>>]
  ELSE LET len == count_bytes_in_arrayn(a, n)
       IN  [fault |-> FALSE, base |-> base,
            blk |-> DupLoop(a, 1, n, FALSE, [k \in 1..len |-> j], 0,
                            SizeofCharPtr * (n + 1), base)]

\* the duplicator returned r for the array in helper
Duplicated(op, n, r) ==
  /\ helper.op = "array"
  /\ helper' = [helper EXCEPT !.op = op, !.n = n, !.fault = r.fault,
                              !.blk = r.blk]
  /\ UNCHANGED <<pool, heap, marker, created, lalloc, last, nops, buf, blast,
                 detached>>

PoolStrdupa ==
  Duplicated("strdupa", Len(UpToNull(helper.a)),
             aml_pool_strdupa(helper.a, helper.base, helper.j))

PoolStrdupan ==
  \E n \in 0..Len(helper.a) :
    Duplicated("strdupan", n,
               aml_pool_strdupan(helper.a, n, helper.base, helper.j))

InitStrdupa ==
  /\ NoProgram
  /\ \E a \in DupArrays, base \in DupBases, j \in JunkBytes :
       helper = [op |-> "array", a |-> a, n |-> 0, base |-> base, j |-> j,
                 fault |-> FALSE, blk |-> <<>>]

NextStrdupa ==
  \/ PoolStrdupa
  \/ PoolStrdupan

SpecStrdupa == InitStrdupa /\ [][NextStrdupa]_vars

\* entry i (from 0) of the array at the start of blk
Slot(blk, i) ==
  SubSeq(blk, SizeofCharPtr * i + 1, SizeofCharPtr * (i + 1))

\* the string str with its terminator stands at offset off of blk
StrAt(blk, off, str) ==
  /\ off + Len(str) + 1 <= Len(blk)
  /\ \A q \in 1..Len(str) : blk[off + q] = str[q]
  /\ blk[off + Len(str) + 1] = 0

\* entry i of the returned array points to a copy of str that lies behind
\* the slots entries of the array
CopyBehind(blk, base, i, slots, str) ==
  /\ SizeofCharPtr * (i + 1) <= Len(blk)
  /\ \E off \in (SizeofCharPtr * slots)..Len(blk) :
       /\ Slot(blk, i) = PtrBytes(base + off)
       /\ StrAt(blk, off, str)

\* C31: for every NULL-terminated array a of k strings, aml_pool_strdupa
\* returns an array r with r[i] pointing to a copy of a[i] for all i < k,
\* the copies distinct, r[k] = NULL, the k + 1 pointers and the bytes of
\* the strings in disjoint parts of the one allocation.
StrdupaDeepCopy ==
  helper.op = "strdupa" =>
    LET k == helper.n
        strs == UpToNull(helper.a)
    IN  /\ ~helper.fault
        /\ \A i \in 0..(k - 1) :
             CopyBehind(helper.blk, helper.base, i, k + 1, strs[i + 1])
        /\ \A i, i2 \in 0..(k - 1) :
             i # i2 => Slot(helper.blk, i) # Slot(helper.blk, i2)
        /\ Slot(helper.blk, k) = PtrBytes(0)

\* C32: for every array a and count n, aml_pool_strdupan returns an array
\* r of n + 1 entries where, for each i < n, r[i] is NULL if a[i] is NULL
\* and otherwise points to a copy of a[i], and r[n] is NULL.
StrdupanKeepsNull ==
  helper.op = "strdupan" =>
    /\ ~helper.fault
    /\ Len(helper.blk) >= SizeofCharPtr * (helper.n + 1)
    /\ \A i \in 0..(helper.n - 1) :
         IF helper.a[i + 1] = NULLP
           THEN Slot(helper.blk, i) = PtrBytes(0)
           ELSE CopyBehind(helper.blk, helper.base, i, helper.n + 1,
                           helper.a[i + 1])
    /\ Slot(helper.blk, helper.n) = PtrBytes(0)

\* without a NULL among the first n entries the copy is as described
StrdupanCopies ==
  (helper.op = "strdupan" /\ \A i \in 1..helper.n : helper.a[i] # NULLP) =>
    /\ ~helper.fault
    /\ \A i \in 0..(helper.n - 1) :
         CopyBehind(helper.blk, helper.base, i, helper.n + 1, helper.a[i + 1])
    /\ Slot(helper.blk, helper.n) = PtrBytes(0)

SplitOps == {"split", "split2", "split_with_escape", "split_with_escape2"}

NullSplitStep ==
  (helper.op = "input" /\ helper.str = NULLP /\ helper'.op \in SplitOps) =>
    /\ helper'.res # <<>>
    /\ helper'.res[1] = 0
    /\ helper'.num = 0
    /\ helper'.cap = 0
    /\ helper'.pcalls = 0
    /\ ~heap'.aborted
    /\ pool' = pool
    /\ heap' = heap

\* C33: aml_pool_split, aml_pool_split2, aml_pool_split_with_escape and
\* aml_pool_split_with_escape2 given a NULL string return a non-NULL array
\* whose first entry is NULL, report a count of 0, do not abort and make no
\* call that changes the pool.
NullSplit == [][NullSplitStep]_vars

NullSplitWitness ==
  /\ helper.op = "split_with_escape2"
  /\ helper.str = NULLP
  /\ helper.res = <<0>>
  /\ helper.num = 0
  /\ helper.pcalls = 0

\* used() of pool p over a step that is no clear, restore or destroy: as
\* it was when the chain is as it was, and larger by the header and the
\* capacity of the new block when the pool has grown
FootprintOf(p) ==
  (pool[p].live /\ pool'[p].live
     /\ last'.op \notin {"clear", "restore", "destroy"}) =>
    IF Len(pool'[p].chain) = Len(pool[p].chain)
      THEN aml_pool_used(pool'[p]) = aml_pool_used(pool[p])
      ELSE aml_pool_used(pool'[p])
             = W(aml_pool_used(pool[p]) + SizeofNodeT
                   + (Cur(pool'[p]).endp - BlockStart(Cur(pool'[p]))))

FootprintStep == nops' = nops + 1 => \A p \in PoolIds : FootprintOf(p)

\* C34: used() changes only when the pool obtains a new block, by the size
\* of the block plus its header, or on clear and restore; an allocation
\* served from the current block by aml_pool_alloc, aml_pool_ualloc,
\* aml_pool_aalloc or aml_pool_strdupvf leaves it unchanged.
Footprint == [][FootprintStep]_vars

\* the same for every step that is not an aml_pool_aalloc
FootprintButAalloc == [][last'.op # "aalloc" => FootprintStep]_vars

\* the addresses of the blocks the system allocator has handed out and
\* not taken back
LiveBlocks == {b.a : b \in heap.live}

\* the system blocks a standalone pool holds: the block of its header and
\* first node, and one for each later node of its chain
HeldBlocks(h) == {h.hdr} \cup {h.chain[i].node : i \in 2..Len(h.chain)}

NoLeakState ==
  /\ ~heap.bad
  /\ \A p \in PoolIds :
       (pool[p].live /\ pool[p].pool = 0) => HeldBlocks(pool[p]) \subseteq LiveBlocks
  /\ LiveBlocks
       \subseteq UNION {HeldBlocks(pool[p]) :
                         p \in {q \in PoolIds : pool[q].live /\ pool[q].pool = 0}}

NoLeakStep ==
  /\ NoLeakState'
  /\ (last'.op = "clear" /\ nops' = nops + 1 /\ pool[last'.p].pool = 0) =>
       /\ pool'[last'.p].hdr = pool[last'.p].hdr
       /\ pool[last'.p].hdr \in {b.a : b \in heap'.live}
       /\ pool[last'.p].hdr \notin heap'.freed
  /\ (last'.op = "destroy" /\ nops' = nops + 1 /\ pool[last'.p].pool = 0) =>
       /\ HeldBlocks(pool[last'.p]) \subseteq heap'.freed
       /\ heap'.live = {}

\* C35: for a standalone pool, every block obtained from the system
\* allocator is released exactly once by the time destroy returns, clear
\* never releases the block of the header and first node, and the pool
\* holds no block that has been released.
RegionNoLeak == [][NoLeakStep]_vars

\* a pool that had grown has been destroyed: its growth blocks and the
\* block of its header are released, none is left
RegionNoLeakWitness ==
  /\ last.op = "destroy"
  /\ last.p = 1
  /\ last.dropped > 0
  /\ Cardinality(heap.freed) >= 2
  /\ heap.live = {}
  /\ ~heap.bad

\* C37: in every reachable state of a buffer, length <= capacity and the
\* storage holds at least capacity + 1 bytes, so data[length] and every
\* index up to it lies inside the storage.
BufferBounds ==
  buf.live =>
    /\ buf.length <= buf.size
    /\ Len(Bytes(buf)) >= buf.size + 1
    /\ buf.length + 1 \in DOMAIN Bytes(buf)

\* a buffer filled to its capacity by aml_buffer_appendn: the terminator
\* is the last byte of the storage
BufferBoundsWitness ==
  /\ buf.live
  /\ blast.op = "appendn"
  /\ ~IsSentinel(buf)
  /\ buf.size > 0
  /\ buf.length = buf.size
  /\ Len(Bytes(buf)) = buf.size + 1
  /\ At(buf, buf.length) = 0

\* C38: whenever the data pointer of a buffer is the placeholder inside
\* its handle, capacity and length are 0, and no release is ever given an
\* address that is not a live block of the system allocator, the
\* placeholder address in particular.
PlaceholderConsistent ==
  /\ (buf.live /\ IsSentinel(buf)) =>
       /\ buf.size = 0
       /\ buf.length = 0
       /\ buf.ptr = buf.hnd + OffsetofSize
  /\ ~heap.bad
  /\ \A a \in heap.freed :
       \A b \in heap.live : ~(b.a < a /\ a < b.a + b.n)

\* a heap-backed buffer that had real storage was put on its placeholder
\* by a detach and then destroyed: the handle is released, the storage
\* handed out is not
PlaceholderConsistentWitness ==
  /\ detached.given # {}
  /\ blast.op = "destroy"
  /\ ~buf.live
  /\ heap.freed # {}
  /\ detached.ret \notin heap.freed
  /\ ~heap.bad

====
